---- MODULE Spec2Model ----
(***************************************************************************)
(* A model of sql_lineage: analyze (analyzer.py), build_graph (graph.py)   *)
(* and export_graph (exporters.py) over statement trees handed over by the *)
(* external parser.  Spec is one call of analyze or build_graph, followed  *)
(* by an export of the graph; TwiceSpec is the same call made twice;       *)
(* BuilderSpec is build_graph and export_graph from the point where        *)
(* analyze has returned, over statement dicts with sources, targets,       *)
(* output columns, joins and unions; ScopeSpec is Spec over texts with     *)
(* shadowed CTE names, ambiguous references and identifiers reused across  *)
(* scopes.                                                                 *)
(*                                                                         *)
(* Python values are modelled as follows.  A dict with fixed keys is a     *)
(* record; a list is a sequence; an insertion-ordered dict with computed   *)
(* keys is a sequence of records with pairwise distinct keys, in insertion *)
(* order; None is the string NoneStr; a raised exception is the record     *)
(* Raise(type); f-strings are built with \o so that two different inputs   *)
(* that format to the same text give the same identifier, as in the code.  *)
(***************************************************************************)
EXTENDS Naturals, Sequences, FiniteSets, TLC

\* ------------------------------------------------------------------
\* Python helpers
\* ------------------------------------------------------------------

\* Python's None, where a str is expected otherwise.
NoneStr == "<None>"

\* A value standing for "raise <type>" leaving the function that computed it.
Raise(type) == [raise |-> type]

\* v is a raise and no value: v may be a record or a list, and only a raise has
\* the field "raise"
IsRaise(v) == \E k \in DOMAIN v : ToString(k) = ToString("raise")

\* s[:-1]
Front(s) == SubSeq(s, 1, Len(s) - 1)

\* x in s, for a list s
InSeq(x, s) == \E i \in 1..Len(s) : s[i] = x

RECURSIVE Flatten(_)
\* sum(ss, []) : the concatenation of a list of lists
Flatten(ss) == IF ss = <<>> THEN <<>> ELSE Flatten(Front(ss)) \o ss[Len(ss)]

RECURSIVE UniqueSeq(_)
\* the "seen" loops of the code: keep the first occurrence of each element
UniqueSeq(s) ==
    IF s = <<>> THEN <<>>
    ELSE LET r == UniqueSeq(Front(s))
             x == s[Len(s)]
         IN IF InSeq(x, r) THEN r ELSE Append(r, x)

\* The first exception raised while a loop computes rs[1], rs[2], ... in order.
FirstRaise(rs) ==
    LET i == CHOOSE k \in 1..Len(rs) :
                 IsRaise(rs[k]) /\ \A j \in 1..(k - 1) : ~IsRaise(rs[j])
    IN rs[i]

AnyRaise(rs) == \E k \in 1..Len(rs) : IsRaise(rs[k])

\* ------------------------------------------------------------------
\* models.py
\* ------------------------------------------------------------------

ColumnRef(t, c) == [table |-> t, column |-> c]

LineageMapping(out, srcs, why) ==
    [output_column |-> out, sources |-> srcs, reason |-> why]

LineageData(ty, ins, maps, funcs, lits, nts) ==
    [type |-> ty, inputs |-> ins, mapping |-> maps, functions |-> funcs,
     literals |-> lits, notes |-> nts]

Dependency(t, cols) == [table |-> t, columns |-> cols]

OutputColumn(n, e, lin, deps) ==
    [name |-> n, expression |-> e, lineage |-> lin, dependencies |-> deps]

\* ------------------------------------------------------------------
\* context.py
\* ------------------------------------------------------------------

SourceInfo(n, a, db, ty, outs) ==
    [name |-> n, alias |-> a, database |-> db, source_type |-> ty,
     output_inputs |-> outs]

\* SourceInfo.identifier: self.alias or self.name
identifier(source) == IF source.alias # "" THEN source.alias ELSE source.name

\* The fields the dataclass AnalysisContext declares, hence the keyword
\* arguments its generated __init__ accepts.
AnalysisContextFields == {"sources", "report_sources"}

\* AnalysisContext(**kwargs): the dataclass __init__ raises TypeError on a
\* keyword it does not declare, and on a declared field (none has a default)
\* that is not given.
AnalysisContext(kwargs) ==
    IF DOMAIN kwargs = AnalysisContextFields THEN kwargs ELSE Raise("TypeError")

\* AnalysisContext.resolve_source; NoSource stands for None
NoSource == SourceInfo(NoneStr, "", "", "none", <<>>)

resolve_source(context, name) ==
    LET all == context.sources \o context.report_sources
        hit == {i \in 1..Len(all) : identifier(all[i]) = name}
    IN IF hit = {} THEN NoSource
       ELSE all[CHOOSE i \in hit : \A j \in hit : i <= j]

candidate_sources(context) ==
    LET non_cte_sources == SelectSeq(context.sources, LAMBDA s : s.source_type # "cte")
    IN IF non_cte_sources # <<>> THEN non_cte_sources ELSE context.sources

resolve_unqualified_column(context) ==
    LET candidates == candidate_sources(context)
    IN IF Len(candidates) = 1 THEN candidates[1] ELSE NoSource

\* "{database}.{name}".strip("."), for names that hold no dot at either end
DottedName(database, name) ==
    IF database = "" THEN name
    ELSE IF name = "" THEN database
    ELSE database \o "." \o name

\* exp.Table.alias_or_name
alias_or_name(node) == IF node.alias # "" THEN node.alias ELSE node.name

build_source_info_from_table(table) ==
    LET alias == alias_or_name(table)
    IN SourceInfo(DottedName(table.db, table.name),
                  IF alias # table.name THEN alias ELSE "",
                  table.db, "table", <<>>)

build_source_info_from_subquery(alias, output_inputs) ==
    SourceInfo(alias, alias, "", "subquery", output_inputs)

build_source_info_from_cte(name, output_inputs) ==
    SourceInfo(name, name, "", "cte", output_inputs)

SourceKey(source) == <<source.source_type, source.name, source.alias>>

RECURSIVE merge_sources(_)
merge_sources(sources) ==
    IF sources = <<>> THEN <<>>
    ELSE LET unique == merge_sources(Front(sources))
             source == sources[Len(sources)]
         IN IF \E i \in 1..Len(unique) : SourceKey(unique[i]) = SourceKey(source)
            THEN unique
            ELSE Append(unique, source)

\* ------------------------------------------------------------------
\* lineage_builder.py
\* ------------------------------------------------------------------

\* dict[key] = value on an insertion-ordered dict
DictSet(d, key, value) ==
    IF \E i \in 1..Len(d) : d[i].key = key
    THEN [i \in 1..Len(d) |-> IF d[i].key = key THEN [key |-> key, value |-> value] ELSE d[i]]
    ELSE Append(d, [key |-> key, value |-> value])

DictHas(d, key) == \E i \in 1..Len(d) : d[i].key = key

\* dict.get(key) for list values: <<>> stands for None as well as for [],
\* which the code tells apart nowhere (it tests "if not expanded").
DictGet(d, key) ==
    IF DictHas(d, key) THEN d[CHOOSE i \in 1..Len(d) : d[i].key = key].value ELSE <<>>

_unique_column_refs(inputs) == UniqueSeq(inputs)

\* The canonical lowercase function names the parser reports, in str order.
FunctionNames == <<"case", "coalesce", "concat", "ifnull", "sum">>

\* sorted(set(names))
SortedNames(names) == SelectSeq(FunctionNames, LAMBDA f : InSeq(f, names))

\* expression.funcs is [_function_name(f) for f in expression.find_all((Func, Anonymous))]
extract_functions(expression, dialect) ==
    LET functions == expression.funcs
    IN IF InSeq("coalesce", functions) /\ dialect = "mysql"
       THEN SortedNames(Append(functions, "ifnull"))
       ELSE SortedNames(functions)

_extract_literals(expression) == expression.literals

\* column is an exp.Column: column.table is "" when the reference is unqualified
_resolve_column_ref(column, context) ==
    IF column.table # ""
    THEN [refs |-> <<ColumnRef(column.table, column.name)>>, notes |-> <<>>]
    ELSE LET resolved == resolve_unqualified_column(context)
         IN IF resolved = NoSource
            THEN [refs |-> <<ColumnRef(NoneStr, column.name)>>,
                  notes |-> <<[ambiguous_column |-> column.name]>>]
            ELSE [refs |-> <<ColumnRef(identifier(resolved), column.name)>>,
                  notes |-> <<>>]

RECURSIVE ExpandOnPath(_, _, _)
\* _expand_cte_or_subquery_inputs, with the references of the enclosing calls
\* in path.  The function is pure, so a call whose argument is already on the
\* path recurses without end: Python ends it with RecursionError.
ExpandOnPath(column, context, path) ==
    IF column.table = NoneStr THEN <<column>>
    ELSE LET source == resolve_source(context, column.table)
         IN IF source = NoSource THEN <<column>>
            ELSE IF source.source_type \notin {"cte", "subquery"} THEN <<column>>
            ELSE LET expanded == DictGet(source.output_inputs, column.column)
                 IN IF expanded = <<>> THEN <<column>>
                    ELSE IF column \in path THEN Raise("RecursionError")
                    ELSE LET subs == [i \in 1..Len(expanded) |->
                                        ExpandOnPath(expanded[i], context, path \cup {column})]
                         IN IF AnyRaise(subs) THEN FirstRaise(subs)
                            ELSE <<column>> \o Flatten(subs)

_expand_cte_or_subquery_inputs(column, context) == ExpandOnPath(column, context, {})

extract_lineage_data(expression, output_name, context, lineage_type, mapping_reason) ==
    LET resolved == [i \in 1..Len(expression.columns) |->
                        _resolve_column_ref(expression.columns[i], context)]
        notes == Flatten([i \in 1..Len(resolved) |-> resolved[i].notes])
        refs == Flatten([i \in 1..Len(resolved) |-> resolved[i].refs])
        expansions == [i \in 1..Len(refs) |-> _expand_cte_or_subquery_inputs(refs[i], context)]
    IN IF AnyRaise(expansions) THEN FirstRaise(expansions)
       ELSE LET inputs == _unique_column_refs(Flatten(expansions))
                functions == extract_functions(expression, context.dialect)
                literals == _extract_literals(expression)
                mapping_sources == SelectSeq(inputs, LAMBDA item : item.table # NoneStr)
            IN LineageData(lineage_type, inputs,
                           <<LineageMapping(output_name, mapping_sources, mapping_reason)>>,
                           functions, literals, notes)

\* build_dependencies is called without a context by _analyze_union
NoContext == [sources |-> <<>>, report_sources |-> <<>>, none |-> TRUE]

RECURSIVE GroupInputs(_, _)
\* the first loop of build_dependencies: grouped, a dict table_name -> columns
GroupInputs(inputs, context) ==
    IF inputs = <<>> THEN <<>>
    ELSE LET grouped == GroupInputs(Front(inputs), context)
             item == inputs[Len(inputs)]
             source == IF context = NoContext THEN NoSource
                       ELSE resolve_source(context, item.table)
             table_name == IF source # NoSource /\ source.name # ""
                           THEN source.name ELSE item.table
             columns == DictGet(grouped, table_name)
         IN IF item.table = NoneStr THEN grouped
            ELSE IF source # NoSource /\ source.source_type \in {"cte", "subquery"}
                 THEN grouped
            ELSE IF InSeq(item.column, columns)
                 THEN DictSet(grouped, table_name, columns)
                 ELSE DictSet(grouped, table_name, Append(columns, item.column))

RECURSIVE SetDefaultTables(_, _)
\* the second loop: grouped.setdefault(source.name, []) for every table source
SetDefaultTables(grouped, report_sources) ==
    IF report_sources = <<>> THEN grouped
    ELSE LET g == SetDefaultTables(grouped, Front(report_sources))
             source == report_sources[Len(report_sources)]
         IN IF source.source_type = "table" /\ ~DictHas(g, source.name)
            THEN DictSet(g, source.name, <<>>)
            ELSE g

build_dependencies(inputs, context) ==
    LET grouped == GroupInputs(inputs, context)
        full == IF context = NoContext THEN grouped
                ELSE SetDefaultTables(grouped, context.report_sources)
    IN [i \in 1..Len(full) |-> Dependency(full[i].key, full[i].value)]

\* expression is a select-list item: an exp.Alias iff it carries an alias,
\* and expression.this is an exp.Column iff its inner node is "Column"
determine_lineage_type(expression, functions, is_union) ==
    IF is_union THEN <<"union", "union">>
    ELSE IF expression.alias # "" /\ expression.inner = "Column"
         THEN <<"column_rename", "alias">>
    ELSE IF InSeq("coalesce", functions) /\ ~InSeq("ifnull", functions)
         THEN <<"expression", "coalesce">>
    ELSE <<"expression", "expression">>

\* ------------------------------------------------------------------
\* Statement trees, as the parser hands them over
\* ------------------------------------------------------------------
\*   exp.Table     [node |-> "Table", db, name, alias, this |-> NoQuery]
\*   exp.Subquery  [node |-> "Subquery", db |-> "", name |-> "", alias, this |-> query]
\*   exp.Select    [node |-> "Select", with, from, joins, expressions]
\*                 with: the CTEs [alias, this]; from: the FROM items;
\*                 joins: [this |-> item, kind, on]; expressions: the select list
\*   exp.Union     [node |-> "Union", left, right]
\*   exp.Create    [node |-> "Create", this |-> exp.Table or exp.Schema, expression]
\*   other         [node |-> key, this, expression]
\*   select item   [alias, inner, columns, funcs, literals, sql], where inner is
\*                 the class of the item itself, or of item.this under an alias

NoQuery == [node |-> "None"]

\* ------------------------------------------------------------------
\* collectors.py
\* ------------------------------------------------------------------

table_identifier(table) ==
    LET alias == alias_or_name(table)
    IN [type |-> "table",
        name |-> DottedName(table.db, table.name),
        database |-> table.db,
        alias |-> IF alias # table.name THEN alias ELSE ""]

\* right_entry = None
NoEntry == [type |-> "none", name |-> "", database |-> "", alias |-> ""]

\* str.lower on the join kinds the parser produces
LowerKind(kind) ==
    CASE kind = "LEFT" -> "left"
      [] kind = "INNER" -> "inner"
      [] kind = "CROSS" -> "cross"
      [] OTHER -> kind

collect_joins(select, dialect) ==
    [i \in 1..Len(select.joins) |->
        LET join == select.joins[i]
        IN [join_type |-> IF join.kind # "" THEN LowerKind(join.kind) ELSE "inner",
            right |-> IF join.this.node = "Table" THEN table_identifier(join.this)
                      ELSE NoEntry,
            condition |-> join.on]]

\* the FROM items and the JOIN items of one Select, in source order
DirectItems(select) ==
    select.from \o [i \in 1..Len(select.joins) |-> select.joins[i].this]

RECURSIVE SelectsOf(_)
\* the Selects a query consists of: itself, or the branches of a Union
SelectsOf(query) ==
    IF query.node = "Select" THEN <<query>>
    ELSE IF query.node = "Union" THEN SelectsOf(query.left) \o SelectsOf(query.right)
    ELSE <<>>

\* the queries nested one level below a Select: CTE bodies, then subquery bodies
NestedQueries(select) ==
    [i \in 1..Len(select.with) |-> select.with[i].this]
    \o LET subs == SelectSeq(DirectItems(select), LAMBDA item : item.node = "Subquery")
       IN [i \in 1..Len(subs) |-> subs[i].this]

RECURSIVE SubqueriesBelow(_)
\* the exp.Subquery nodes below the queries of one level, level by level
SubqueriesBelow(level) ==
    IF level = <<>> THEN <<>>
    ELSE LET selects == Flatten([i \in 1..Len(level) |-> SelectsOf(level[i])])
             here == Flatten([i \in 1..Len(selects) |->
                        SelectSeq(DirectItems(selects[i]), LAMBDA item : item.node = "Subquery")])
             below == Flatten([i \in 1..Len(selects) |-> NestedQueries(selects[i])])
         IN here \o SubqueriesBelow(below)

\* select.find_all(exp.Subquery): breadth first over the whole tree of the Select
find_all_subqueries(select) == SubqueriesBelow(<<select>>)

\* expression.find(exp.Select) for a statement that is neither Select nor Union
find_select(expression) ==
    LET selects == IF "expression" \in DOMAIN expression
                   THEN SelectsOf(expression.expression) ELSE <<>>
    IN IF selects = <<>> THEN NoQuery ELSE selects[1]

\* ------------------------------------------------------------------
\* context_builder.py and analyzer.py (mutually recursive)
\* ------------------------------------------------------------------

RECURSIVE OutputInputsOf(_)
\* _output_inputs_from_analysis: output_inputs[name] = inputs, column by column
OutputInputsOf(columns) ==
    IF columns = <<>> THEN <<>>
    ELSE LET column == columns[Len(columns)]
         IN DictSet(OutputInputsOf(Front(columns)), column.name, column.lineage.inputs)

_output_inputs_from_analysis(analysis) == OutputInputsOf(analysis.output.columns)

\* the table sources of a nested analysis, rebuilt as SourceInfo for reporting
NestedTableSources(analysis) ==
    LET tables == SelectSeq(analysis.sources, LAMBDA source : source.type = "table")
    IN [i \in 1..Len(tables) |->
           SourceInfo(tables[i].name, tables[i].alias, tables[i].database, "table", <<>>)]

_collect_immediate_tables(select) ==
    LET tables == SelectSeq(DirectItems(select), LAMBDA item : item.node = "Table")
    IN [i \in 1..Len(tables) |-> build_source_info_from_table(tables[i])]

_output_name(expression) ==
    IF expression.alias # "" THEN expression.alias
    ELSE IF expression.inner = "Column" THEN expression.columns[1].name
    ELSE expression.sql

\* expression.this.sql(dialect) under an alias, expression.sql(dialect) otherwise:
\* the item's text without its alias
_expression_sql(expression, dialect) == expression.sql

EmptyAnalysis ==
    [sources |-> <<>>, output |-> [columns |-> <<>>], joins |-> <<>>,
     unions |-> <<>>, subqueries |-> <<>>]

RECURSIVE analyze_expression(_, _)
RECURSIVE _analyze_select(_, _)
RECURSIVE _analyze_union(_, _)
RECURSIVE build_context(_, _)
RECURSIVE _collect_cte_sources(_, _)
RECURSIVE _collect_subquery_sources(_, _)
RECURSIVE collect_subqueries(_, _)

_collect_cte_sources(select, dialect) ==
    LET Collect(analyses) ==
            IF AnyRaise(analyses) THEN FirstRaise(analyses)
            ELSE LET cte_source(i) ==
                         build_source_info_from_cte(
                             select.with[i].alias, _output_inputs_from_analysis(analyses[i]))
                 IN [sources |-> [i \in 1..Len(analyses) |-> cte_source(i)],
                     report_sources |-> Flatten([i \in 1..Len(analyses) |->
                         <<cte_source(i)>> \o NestedTableSources(analyses[i])])]
    IN Collect([i \in 1..Len(select.with) |->
                   analyze_expression(select.with[i].this, dialect)])

_collect_subquery_sources(select, dialect) ==
    LET Collect(subqueries, analyses) ==
            IF AnyRaise(analyses) THEN FirstRaise(analyses)
            ELSE LET subquery_source(i) ==
                         build_source_info_from_subquery(
                             subqueries[i].alias, _output_inputs_from_analysis(analyses[i]))
                 IN [sources |-> [i \in 1..Len(analyses) |-> subquery_source(i)],
                     report_sources |-> Flatten([i \in 1..Len(analyses) |->
                         <<subquery_source(i)>> \o NestedTableSources(analyses[i])])]
        Aliased(subqueries) ==
            Collect(subqueries, [i \in 1..Len(subqueries) |->
                                    analyze_expression(subqueries[i].this, dialect)])
    IN Aliased(SelectSeq(find_all_subqueries(select), LAMBDA sub : sub.alias # ""))

build_context(select, dialect) ==
    LET Build(ctes, subs, immediate_tables) ==
            IF IsRaise(ctes) THEN ctes
            ELSE IF IsRaise(subs) THEN subs
            ELSE LET \* cte_map[ident], for an ident that names a CTE
                     cte_of(ident) ==
                         ctes.sources[CHOOSE i \in 1..Len(ctes.sources) :
                             /\ identifier(ctes.sources[i]) = ident
                             /\ \A j \in (i + 1)..Len(ctes.sources) :
                                    identifier(ctes.sources[j]) # ident]
                     in_cte_map(ident) ==
                         \E i \in 1..Len(ctes.sources) : identifier(ctes.sources[i]) = ident
                     chosen == [i \in 1..Len(immediate_tables) |->
                                   IF in_cte_map(identifier(immediate_tables[i]))
                                   THEN cte_of(identifier(immediate_tables[i]))
                                   ELSE immediate_tables[i]]
                 IN AnalysisContext(
                      [sources |-> merge_sources(ctes.sources \o subs.sources \o chosen),
                       report_sources |->
                           merge_sources(ctes.report_sources \o subs.report_sources \o chosen),
                       dialect |-> dialect,
                       active_identifiers |->
                           [i \in 1..Len(immediate_tables) |-> identifier(immediate_tables[i])]])
    IN Build(_collect_cte_sources(select, dialect),
             _collect_subquery_sources(select, dialect),
             _collect_immediate_tables(select))

collect_subqueries(expression, dialect) ==
    LET Collect(analyses) == IF AnyRaise(analyses) THEN FirstRaise(analyses) ELSE analyses
        Selects(subqueries) ==
            Collect([i \in 1..Len(subqueries) |->
                        analyze_expression(subqueries[i].this, dialect)])
    IN Selects(SelectSeq(find_all_subqueries(expression),
                         LAMBDA sub : sub.this.node = "Select"))

\* one turn of the loop of _analyze_select over select.expressions
SelectOutputColumn(select_expr, context, dialect) ==
    LET \* select_expr.this under an alias: the same columns, functions and literals
        lineage_expression == select_expr
        Column(name, kind) ==
            LET Finish(lineage) ==
                    IF IsRaise(lineage) THEN lineage
                    ELSE OutputColumn(name, _expression_sql(select_expr, dialect), lineage,
                                      build_dependencies(lineage.inputs, context))
            IN Finish(extract_lineage_data(lineage_expression, name, context,
                                           kind[1], kind[2]))
    IN Column(_output_name(select_expr),
              determine_lineage_type(select_expr,
                                     extract_functions(lineage_expression, dialect), FALSE))

_analyze_select(select, dialect) ==
    LET Report(context, output_columns, subqueries) ==
            IF IsRaise(output_columns) THEN output_columns
            ELSE IF IsRaise(subqueries) THEN subqueries
            ELSE [sources |-> [i \in 1..Len(context.report_sources) |->
                      [type |-> context.report_sources[i].source_type,
                       name |-> context.report_sources[i].name,
                       database |-> context.report_sources[i].database,
                       alias |-> context.report_sources[i].alias]],
                  output |-> [columns |-> output_columns],
                  joins |-> collect_joins(select, dialect),
                  unions |-> <<>>,
                  subqueries |-> subqueries]
        \* the loop over select.expressions: its columns, or the first exception
        Columns(output_columns) ==
            IF AnyRaise(output_columns) THEN FirstRaise(output_columns) ELSE output_columns
        Analyze(context) ==
            IF IsRaise(context) THEN context
            ELSE Report(context,
                        Columns([i \in 1..Len(select.expressions) |->
                                    SelectOutputColumn(select.expressions[i], context, dialect)]),
                        collect_subqueries(select, dialect))
    IN Analyze(build_context(select, dialect))

\* one turn of the loop of _analyze_union over the left branch's columns
UnionOutputColumn(left_col, right_columns, index) ==
    LET Column(lineage_inputs) ==
            OutputColumn(left_col.name, left_col.expression,
                LineageData("union", lineage_inputs,
                    \* "if item.get('table')": neither None nor the empty string
                    <<LineageMapping(left_col.name,
                          SelectSeq(lineage_inputs,
                                    LAMBDA item : item.table # NoneStr /\ item.table # ""),
                          "union")>>,
                    <<>>, <<>>, <<>>),
                build_dependencies(lineage_inputs, NoContext))
        Inputs(inputs) ==
            Column([i \in 1..Len(inputs) |-> ColumnRef(inputs[i].table, inputs[i].column)])
    IN Inputs(IF index <= Len(right_columns)
              THEN left_col.lineage.inputs \o right_columns[index].lineage.inputs
              ELSE left_col.lineage.inputs)

_analyze_union(union, dialect) ==
    LET Pair(left_data, right_data) ==
            IF IsRaise(left_data) THEN left_data
            ELSE IF IsRaise(right_data) THEN right_data
            ELSE [sources |-> left_data.sources \o right_data.sources,
                  output |-> [columns |-> [i \in 1..Len(left_data.output.columns) |->
                      UnionOutputColumn(left_data.output.columns[i],
                                        right_data.output.columns, i)]],
                  joins |-> left_data.joins \o right_data.joins,
                  unions |-> <<left_data, right_data>>,
                  subqueries |-> left_data.subqueries \o right_data.subqueries]
    IN Pair(analyze_expression(union.left, dialect),
            analyze_expression(union.right, dialect))

analyze_expression(expression, dialect) ==
    IF expression.node = "Union" THEN _analyze_union(expression, dialect)
    ELSE LET select == IF expression.node = "Select" THEN expression
                       ELSE find_select(expression)
         IN IF select.node # "None" THEN _analyze_select(select, dialect)
            ELSE EmptyAnalysis

\* ------------------------------------------------------------------
\* dialects.py and parser.py
\* ------------------------------------------------------------------

SUPPORTED_DIALECTS == {"clickhouse", "postgres", "spark", "mysql"}

\* dialect.strip().lower(), on the dialect names given to analyze
normalize_dialect(dialect) ==
    CASE dialect = " MySQL " -> "mysql"
      [] dialect = "Postgres" -> "postgres"
      [] OTHER -> dialect

is_supported_dialect(dialect) == normalize_dialect(dialect) \in SUPPORTED_DIALECTS

\* target = None
NoTable == [node |-> "None", db |-> "", name |-> "", alias |-> ""]

\* expression.key.lower() for the other statement classes
LowerKey(node) ==
    CASE node = "Drop" -> "drop"
      [] node = "Insert" -> "insert"
      [] OTHER -> node

_statement_type(expression) ==
    IF expression.node = "Create"
    THEN IF expression.expression.node # "None" THEN "create_table_as" ELSE "create_table"
    ELSE IF expression.node = "Select" THEN "select"
    ELSE IF expression.node = "Union" THEN "union"
    ELSE LowerKey(expression.node)

StatementParseResult(expression) ==
    [expression |-> expression,
     target |-> IF expression.node = "Create" /\ expression.this.node = "Table"
                THEN expression.this ELSE NoTable,
     statement_type |-> _statement_type(expression)]

\* parse_sql(sql, dialect).  The text sql is given by what the external parser
\* makes of it: sql.parses, the dialects under which it parses, and sql.trees,
\* its statement trees.  sqlglot.parse raises on a text it cannot parse.
parse_sql(sql, dialect) ==
    IF dialect \notin sql.parses THEN Raise("ParseError")
    ELSE [i \in 1..Len(sql.trees) |-> StatementParseResult(sql.trees[i])]

\* str(exc) for the parser's exception
ParseErrorText == "ParseError"

\* ------------------------------------------------------------------
\* analyzer.py: statements
\* ------------------------------------------------------------------

\* target = None in a StatementAnalysis
NoTarget == [type |-> "none", name |-> "", database |-> "", raw |-> ""]

\* table.sql(dialect) for a target: its dotted name
_target_from_table(table, dialect) ==
    [type |-> "table", name |-> table.name, database |-> table.db,
     raw |-> DottedName(table.db, table.name)]

\* the OutputColumn dataclasses rebuilt from the analysis dict, field by field
RebuildColumn(col) ==
    OutputColumn(col.name, col.expression,
        LineageData(col.lineage.type,
            [i \in 1..Len(col.lineage.inputs) |->
                ColumnRef(col.lineage.inputs[i].table, col.lineage.inputs[i].column)],
            [i \in 1..Len(col.lineage.mapping) |->
                LineageMapping(col.lineage.mapping[i].output_column,
                    [j \in 1..Len(col.lineage.mapping[i].sources) |->
                        ColumnRef(col.lineage.mapping[i].sources[j].table,
                                  col.lineage.mapping[i].sources[j].column)],
                    col.lineage.mapping[i].reason)],
            col.lineage.functions, col.lineage.literals, col.lineage.notes),
        [i \in 1..Len(col.dependencies) |->
            Dependency(col.dependencies[i].table, col.dependencies[i].columns)])

StatementAnalysis(index, statement_type, target, output_columns, sources, joins, unions, subqueries, errors) ==
    [index |-> index, type |-> statement_type, target |-> target,
     output |-> [columns |-> output_columns], sources |-> sources, joins |-> joins,
     unions |-> unions, subqueries |-> subqueries, errors |-> errors]

_analyze_statement(statement, dialect) ==
    LET Rebuild(analysis) ==
            IF IsRaise(analysis) THEN analysis
            ELSE StatementAnalysis(0, statement.statement_type,
                     IF statement.target.node # "None"
                     THEN _target_from_table(statement.target, dialect) ELSE NoTarget,
                     [i \in 1..Len(analysis.output.columns) |->
                         RebuildColumn(analysis.output.columns[i])],
                     analysis.sources, analysis.joins, analysis.unions,
                     analysis.subqueries, <<>>)
    IN Rebuild(analyze_expression(
                   IF statement.expression.node = "Create"
                      /\ statement.expression.expression.node # "None"
                   THEN statement.expression.expression ELSE statement.expression,
                   dialect))

\* ------------------------------------------------------------------
\* graph_utils.py
\* ------------------------------------------------------------------

ResolvedTable(full_name, source_type, alias) ==
    [full_name |-> full_name, source_type |-> source_type, alias |-> alias]

table_id(full_name) == "table:" \o full_name

cte_id(name) == "cte:" \o name

subquery_id(statement_index, index) ==
    "subquery:" \o ToString(statement_index) \o ":" \o ToString(index)

column_id(table_full_name, column) == "column:" \o table_full_name \o "." \o column

\* hashlib.sha1(expression).hexdigest()[:8], taken to be collision-free on the
\* texts of the model
Digest(expression) == "sha1(" \o expression \o ")"

expression_id(statement_index, output_name, expression) ==
    "expr:" \o ToString(statement_index) \o ":" \o output_name \o ":" \o Digest(expression)

\* the last source of the list with sources[i][key] = value: what the dict
\* comprehension loop of resolve_table_reference leaves in alias_map / name_map
LastWith(sources, key, value) ==
    sources[CHOOSE i \in 1..Len(sources) :
        /\ sources[i][key] = value
        /\ \A j \in (i + 1)..Len(sources) : sources[j][key] # value]

\* returns the pair (ResolvedTable, warning); warning is NoneStr for None
resolve_table_reference(table_ref, sources) ==
    IF table_ref = NoneStr \/ table_ref = ""
    THEN [resolved |-> ResolvedTable("unknown", "unknown", ""),
          warning |-> "Missing table reference"]
    ELSE IF \E i \in 1..Len(sources) : sources[i].alias = table_ref
    THEN LET source == LastWith(sources, "alias", table_ref)
         IN [resolved |-> ResolvedTable(source.name, source.type, source.alias),
             warning |-> NoneStr]
    ELSE IF \E i \in 1..Len(sources) : sources[i].name = table_ref
    THEN LET source == LastWith(sources, "name", table_ref)
         IN [resolved |-> ResolvedTable(source.name, source.type, source.alias),
             warning |-> NoneStr]
    ELSE [resolved |-> ResolvedTable(table_ref, "unknown", ""),
          warning |-> "Unresolved table reference: " \o table_ref]

\* The (database, name) pairs of the relations the statements of the model name.
KnownRelations ==
    {<<"", "t">>, <<"", "t1">>, <<"", "t2">>, <<"", "s">>, <<"", "tgt">>,
     <<"core", "users">>, <<"core", "orders">>, <<"analytics", "result">>}

\* full_name.split(".", 1): the names of the model hold at most one dot, the
\* one DottedName puts between a database and a table name
split_table_name(full_name) ==
    IF \E pair \in KnownRelations : pair[1] # "" /\ DottedName(pair[1], pair[2]) = full_name
    THEN CHOOSE pair \in KnownRelations :
             pair[1] # "" /\ DottedName(pair[1], pair[2]) = full_name
    ELSE <<"", full_name>>

ensure_unique_columns(columns) == UniqueSeq(columns)

\* ------------------------------------------------------------------
\* graph.py: _GraphBuilder
\* ------------------------------------------------------------------

\* _GraphBuilder.__init__: nodes is the insertion-ordered dict id -> node, kept
\* as the list of its values
NewBuilder == [nodes |-> <<>>, edges |-> <<>>, edge_count |-> 0, warnings |-> <<>>]

HasNode(builder, node_id) ==
    \E i \in 1..Len(builder.nodes) : builder.nodes[i].id = node_id

\* add_node with a plausible slip: no test for the id, so that
\* self.nodes[node_id] = node replaces the node registered first
add_node_overwrites(builder, node) ==
    IF HasNode(builder, node.id)
    THEN [builder EXCEPT !.nodes =
             [i \in 1..Len(builder.nodes) |->
                 IF builder.nodes[i].id = node.id THEN node ELSE builder.nodes[i]]]
    ELSE [builder EXCEPT !.nodes = Append(@, node)]

add_node(builder, node) ==
    IF HasNode(builder, node.id) THEN builder
    ELSE [builder EXCEPT !.nodes = Append(@, node)]

add_edge(builder, edge_type, from_node, to_node, description, statement_index, details) ==
    [builder EXCEPT
        !.edge_count = @ + 1,
        !.edges = Append(@,
            [id |-> "edge:" \o edge_type \o ":" \o ToString(builder.edge_count + 1),
             type |-> edge_type, from |-> from_node, to |-> to_node,
             description |-> description, statement_index |-> statement_index,
             details |-> details])]

\* context is str(input_ref) or a text: kept as the value it renders
add_warning(builder, code, message, statement_index, context) ==
    [builder EXCEPT !.warnings = Append(@,
        [code |-> code, message |-> message, statement_index |-> statement_index,
         context |-> context])]

\* "if warning: builder.add_warning(code='unresolved_table', ...)"
WarnUnresolved(builder, warning, statement_index, context) ==
    IF warning # NoneStr /\ warning # ""
    THEN add_warning(builder, "unresolved_table", warning, statement_index, context)
    ELSE builder

\* ------------------------------------------------------------------
\* graph.py: resolution helpers
\* ------------------------------------------------------------------

\* "target = None", as _target_table_from_statement returns it
NoTargetTable == [full_name |-> "", database |-> "", name |-> "", schema |-> "", none |-> TRUE]

_target_table_from_statement(statement) ==
    IF statement.target.type = "none" THEN NoTargetTable
    ELSE [full_name |-> IF statement.target.database = "" THEN statement.target.name
                        ELSE statement.target.database \o "." \o statement.target.name,
          database |-> statement.target.database,
          name |-> statement.target.name,
          schema |-> statement.target.database]

HasTarget(target_table) == "none" \notin DOMAIN target_table

RECURSIVE SubqueryMapOf(_, _)
\* _build_subquery_map: alias -> subquery_id(statement_index, counter)
SubqueryMapOf(statement_index, subquery_sources) ==
    IF subquery_sources = <<>> THEN <<>>
    ELSE DictSet(SubqueryMapOf(statement_index, Front(subquery_sources)),
                 subquery_sources[Len(subquery_sources)].name,
                 subquery_id(statement_index, Len(subquery_sources)))

_build_subquery_map(statement_index, sources) ==
    SubqueryMapOf(statement_index,
                  SelectSeq(sources, LAMBDA source : source.type = "subquery"))

\* subquery_map.get(alias, default)
MapGet(subquery_map, alias, default) ==
    IF DictHas(subquery_map, alias)
    THEN subquery_map[CHOOSE i \in 1..Len(subquery_map) : subquery_map[i].key = alias].value
    ELSE default

_resolve_with_subqueries(table_ref, sources, statement_index, subquery_map) ==
    LET found == resolve_table_reference(table_ref, sources)
        alias == found.resolved.full_name
    IN IF found.resolved.source_type = "subquery"
       THEN [resolved |-> ResolvedTable(
                 MapGet(subquery_map, alias,
                        "subquery:" \o ToString(statement_index) \o ":" \o alias),
                 found.resolved.source_type, found.resolved.alias),
             warning |-> found.warning]
       ELSE found

_resolved_full_name(resolved) ==
    IF resolved.source_type = "cte" THEN "cte." \o resolved.full_name
    ELSE resolved.full_name

_table_node_id_from_resolved(resolved) ==
    IF resolved.source_type = "cte" THEN cte_id(resolved.full_name)
    ELSE IF resolved.source_type = "subquery" THEN resolved.full_name
    ELSE IF resolved.full_name = "unknown" THEN table_id("unknown")
    ELSE table_id(resolved.full_name)

_table_node_id_from_source_name(source_name, sources, statement_index, subquery_map) ==
    _table_node_id_from_resolved(
        _resolve_with_subqueries(source_name, sources, statement_index, subquery_map).resolved)

\* ------------------------------------------------------------------
\* graph.py: nodes
\* ------------------------------------------------------------------

TableNode(node_id, table_type, name, database, schema, full_name, statement_index, description) ==
    [id |-> node_id, type |-> table_type, name |-> name, database |-> database,
     schema |-> schema, full_name |-> full_name, statement_index |-> statement_index,
     description |-> description]

\* the nodes of type cte and subquery that _add_source_nodes and the builders add
RelationNode(node_id, node_type, name, statement_index, description) ==
    [id |-> node_id, type |-> node_type, name |-> name,
     statement_index |-> statement_index, description |-> description]

\* an input column node
ColumnNode(node_id, owner_id, name, description, statement_index) ==
    [id |-> node_id, type |-> "column", table_id |-> owner_id, name |-> name,
     data_type |-> NoneStr, description |-> description,
     statement_index |-> statement_index]

\* an output column node, which also carries the literals of its expression
OutputColumnNode(node_id, owner_id, name, literals, statement_index) ==
    [id |-> node_id, type |-> "column", table_id |-> owner_id, name |-> name,
     data_type |-> NoneStr, description |-> "Output column", literals |-> literals,
     statement_index |-> statement_index]

UnknownTableNode(statement_index) ==
    TableNode(table_id("unknown"), "table", "unknown", "", "", "unknown",
              statement_index, "Unknown target table")

\* one turn of the loop of _add_source_nodes
SourceNode(source, statement_index, subquery_map) ==
    IF source.type = "table"
    THEN LET parts == split_table_name(source.name)
         IN TableNode(table_id(source.name), "table", parts[2], parts[1], parts[1],
                      source.name, statement_index, "Source table")
    ELSE IF source.type = "cte"
    THEN RelationNode(cte_id(source.name), "cte", source.name, statement_index,
                      "Common table expression")
    ELSE IF source.type = "subquery"
    THEN RelationNode(MapGet(subquery_map, source.name,
                             "subquery:" \o ToString(statement_index) \o ":" \o source.name),
                      "subquery", source.name, statement_index, "Subquery source")
    ELSE LET name == IF source.name = "" THEN "unknown" ELSE source.name
         IN TableNode(table_id(name), "table", name, "", "", name, statement_index,
                      "Unknown source")

RECURSIVE _add_source_nodes(_, _, _, _)
_add_source_nodes(builder, sources, statement_index, subquery_map) ==
    IF sources = <<>> THEN builder
    ELSE add_node(_add_source_nodes(builder, Front(sources), statement_index, subquery_map),
                  SourceNode(sources[Len(sources)], statement_index, subquery_map))

_add_table_node(builder, table, statement_index, table_type, description) ==
    LET node_id == IF table_type = "cte" THEN cte_id(table.name)
                   ELSE IF table_type = "subquery"
                        THEN "subquery:" \o ToString(statement_index) \o ":" \o table.name
                   ELSE table_id(table.full_name)
    IN add_node(builder,
                TableNode(node_id, table_type, table.name, table.database, table.schema,
                          table.full_name, statement_index, description))

\* what the common head of the three builders does for one statement
AddSourcesAndTarget(builder, statement) ==
    LET subquery_map == _build_subquery_map(statement.index, statement.sources)
        target_table == _target_table_from_statement(statement)
        with_sources == _add_source_nodes(builder, statement.sources, statement.index,
                                          subquery_map)
    IN IF HasTarget(target_table)
       THEN _add_table_node(with_sources, target_table, statement.index, "table",
                            "Target table")
       ELSE with_sources

\* ------------------------------------------------------------------
\* graph.py: full mode
\* ------------------------------------------------------------------

\* The rendered select items of the model that hold "(" and, in any case, "CASE".
TextsWithParen == {"COALESCE(a, b)", "COALESCE(t.x, 0)", "SUM(a.x)", "(a.x + a.y)"}

TextsWithCase == {"CASE WHEN a.x > 0 THEN 1 ELSE 0 END"}

_requires_expression_node(output_column) ==
    IF output_column.lineage.type \in {"direct", "column_rename"} THEN FALSE
    ELSE \/ output_column.lineage.functions # <<>>
         \/ output_column.lineage.literals # <<>>
         \/ output_column.expression \in TextsWithParen
         \/ output_column.expression \in TextsWithCase

RECURSIVE AddInputEdges(_, _, _, _, _, _, _)
\* the loop of _add_output_column_graph over lineage["inputs"]
AddInputEdges(builder, inputs, output_column, output_col_id, expression_node_id, statement, subquery_map) ==
    IF inputs = <<>> THEN builder
    ELSE LET before == AddInputEdges(builder, Front(inputs), output_column, output_col_id,
                                     expression_node_id, statement, subquery_map)
             input_ref == inputs[Len(inputs)]
             found == _resolve_with_subqueries(input_ref.table, statement.sources,
                                               statement.index, subquery_map)
             warned == WarnUnresolved(before, found.warning, statement.index, input_ref)
             input_col_id == column_id(_resolved_full_name(found.resolved), input_ref.column)
             owner == _table_node_id_from_resolved(found.resolved)
             noded == add_node(warned, ColumnNode(input_col_id, owner, input_ref.column,
                                                  "Input column", statement.index))
             contained == add_edge(noded, "contains", owner, input_col_id,
                                   "Table contains column", statement.index, <<>>)
             lineaged == add_edge(contained, "lineage", input_col_id, output_col_id,
                                  "Column-level lineage", statement.index,
                                  [confidence |-> "explicit"])
         IN IF expression_node_id # NoneStr
            THEN add_edge(lineaged, "uses", input_col_id, expression_node_id,
                          "Expression uses column", statement.index,
                          [function |-> output_column.lineage.type])
            ELSE lineaged

_add_output_column_graph(builder, output_column, statement, target_table, subquery_map) ==
    LET lineage == output_column.lineage
        output_name == output_column.name
        target_full == IF HasTarget(target_table) THEN target_table.full_name ELSE "unknown"
        b1 == IF target_full = "unknown"
              THEN add_node(builder, UnknownTableNode(statement.index)) ELSE builder
        output_col_id == column_id(target_full, output_name)
        b2 == add_node(b1, OutputColumnNode(output_col_id, table_id(target_full), output_name,
                                            lineage.literals, statement.index))
        b3 == add_edge(b2, "contains", table_id(target_full), output_col_id,
                       "Table contains column", statement.index, <<>>)
        needs == _requires_expression_node(output_column)
        expression_node_id ==
            IF needs THEN expression_id(statement.index, output_name, output_column.expression)
            ELSE NoneStr
        b4 == IF needs
              THEN add_edge(
                       add_node(b3, [id |-> expression_node_id, type |-> "expression",
                                     sql |-> output_column.expression,
                                     description |-> "Expression producing output column",
                                     statement_index |-> statement.index]),
                       "produces", expression_node_id, output_col_id,
                       "Expression produces output column", statement.index,
                       [function |-> lineage.type])
              ELSE b3
    IN AddInputEdges(b4, lineage.inputs, output_column, output_col_id, expression_node_id,
                     statement, subquery_map)

RECURSIVE AddJoinEdges(_, _, _, _)
\* the loop of _add_join_edges over statement["joins"]
AddJoinEdges(builder, joins, statement, subquery_map) ==
    IF joins = <<>> THEN builder
    ELSE LET before == AddJoinEdges(builder, Front(joins), statement, subquery_map)
             join == joins[Len(joins)]
             source_tables == SelectSeq(statement.sources, LAMBDA src : src.type = "table")
             left_name == IF source_tables # <<>> THEN source_tables[1].name ELSE "unknown"
         IN IF join.right = NoEntry THEN before
            ELSE add_edge(before, "joins_with",
                     _table_node_id_from_source_name(left_name, statement.sources,
                                                     statement.index, subquery_map),
                     _table_node_id_from_source_name(join.right.name, statement.sources,
                                                     statement.index, subquery_map),
                     "Tables joined", statement.index,
                     [join_condition |-> join.condition, join_type |-> join.join_type])

_add_join_edges(builder, statement, subquery_map) ==
    AddJoinEdges(builder, statement.joins, statement, subquery_map)

RECURSIVE AddUnionEdges(_, _, _, _)
AddUnionEdges(builder, sources, statement, target_table) ==
    IF sources = <<>> THEN builder
    ELSE LET before == AddUnionEdges(builder, Front(sources), statement, target_table)
             source == sources[Len(sources)]
         IN IF source.type # "table" THEN before
            ELSE add_edge(before, "union_with", table_id(source.name),
                          table_id(target_table.full_name), "Union input to target",
                          statement.index, [union_type |-> "union"])

_add_union_edges(builder, statement, target_table) ==
    IF statement.unions = <<>> THEN builder
    ELSE IF ~HasTarget(target_table) THEN builder
    ELSE AddUnionEdges(builder, statement.sources, statement, target_table)

RECURSIVE AddSubqueryNodes(_, _, _)
\* one node subquery:<statement>:<k> for the k-th entry of statement["subqueries"]
AddSubqueryNodes(builder, count, statement_index) ==
    IF count = 0 THEN builder
    ELSE add_node(AddSubqueryNodes(builder, count - 1, statement_index),
                  RelationNode(subquery_id(statement_index, count), "subquery",
                               "subquery_" \o ToString(statement_index) \o "_" \o ToString(count),
                               statement_index, "Subquery in statement"))

RECURSIVE AddOutputColumns(_, _, _, _, _)
AddOutputColumns(builder, output_columns, statement, target_table, subquery_map) ==
    IF output_columns = <<>> THEN builder
    ELSE _add_output_column_graph(
             AddOutputColumns(builder, Front(output_columns), statement, target_table,
                              subquery_map),
             output_columns[Len(output_columns)], statement, target_table, subquery_map)

\* the body of the loop of _build_full_graph, for one statement
FullStatement(builder, statement) ==
    LET subquery_map == _build_subquery_map(statement.index, statement.sources)
        target_table == _target_table_from_statement(statement)
        b1 == AddSourcesAndTarget(builder, statement)
        b2 == AddSubqueryNodes(b1, Len(statement.subqueries), statement.index)
        b3 == AddOutputColumns(b2, statement.output.columns, statement, target_table,
                               subquery_map)
        b4 == _add_join_edges(b3, statement, subquery_map)
    IN _add_union_edges(b4, statement, target_table)

RECURSIVE _build_full_graph(_, _)
\* the loop of _build_full_graph over the statements; the test of edge_count,
\* which is never negative, makes the builder of the earlier statements a
\* value before the last statement is added to it
_build_full_graph(builder, statements) ==
    IF statements = <<>> THEN builder
    ELSE LET before == _build_full_graph(builder, Front(statements))
         IN IF before.edge_count >= 0
            THEN FullStatement(before, statements[Len(statements)])
            ELSE before

\* ------------------------------------------------------------------
\* graph.py: tables_only mode
\* ------------------------------------------------------------------

\* The lineage types, in str order (for sorted(data["reasons"])).
LineageTypeNames == <<"column_rename", "expression", "select", "union">>

RECURSIVE CountInputs(_, _, _, _, _)
\* the inner loop of _build_tables_only_graph: dependency_map after the inputs
\* of one output column; an entry is full_name -> [count, reasons]
CountInputs(dependency_map, inputs, lineage_type, statement, subquery_map) ==
    IF inputs = <<>> THEN dependency_map
    ELSE LET before == CountInputs(dependency_map, Front(inputs), lineage_type, statement,
                                   subquery_map)
             found == _resolve_with_subqueries(inputs[Len(inputs)].table, statement.sources,
                                               statement.index, subquery_map)
             name == found.resolved.full_name
             old == IF DictHas(before, name)
                    THEN before[CHOOSE i \in 1..Len(before) : before[i].key = name].value
                    ELSE [count |-> 0, reasons |-> {}]
         IN DictSet(before, name,
                    [count |-> old.count + 1, reasons |-> old.reasons \cup {lineage_type}])

RECURSIVE DependencyMapOf(_, _, _)
DependencyMapOf(output_columns, statement, subquery_map) ==
    IF output_columns = <<>> THEN <<>>
    ELSE CountInputs(DependencyMapOf(Front(output_columns), statement, subquery_map),
                     output_columns[Len(output_columns)].lineage.inputs,
                     output_columns[Len(output_columns)].lineage.type,
                     statement, subquery_map)

RECURSIVE WarnInputs(_, _, _, _)
\* the warnings the same loops record, in the order of the inputs
WarnInputs(builder, inputs, statement, subquery_map) ==
    IF inputs = <<>> THEN builder
    ELSE WarnUnresolved(WarnInputs(builder, Front(inputs), statement, subquery_map),
             _resolve_with_subqueries(inputs[Len(inputs)].table, statement.sources,
                                      statement.index, subquery_map).warning,
             statement.index, inputs[Len(inputs)])

\* all lineage inputs of a statement, output column by output column
AllInputs(statement) ==
    Flatten([i \in 1..Len(statement.output.columns) |->
                statement.output.columns[i].lineage.inputs])

RECURSIVE AddTableLineage(_, _, _, _, _)
\* the loop over dependency_map.items()
AddTableLineage(builder, entries, statement, target_table, subquery_map) ==
    IF entries = <<>> THEN builder
    ELSE LET entry == entries[Len(entries)]
         IN add_edge(AddTableLineage(builder, Front(entries), statement, target_table,
                                     subquery_map),
                     "table_lineage",
                     _table_node_id_from_source_name(entry.key, statement.sources,
                                                     statement.index, subquery_map),
                     table_id(target_table.full_name),
                     "Table-level lineage", statement.index,
                     [columns_count |-> entry.value.count,
                      via |-> SelectSeq(LineageTypeNames,
                                        LAMBDA r : r \in entry.value.reasons)])

\* the body of the loop of _build_tables_only_graph, for one statement
TablesOnlyStatement(builder, statement) ==
    LET subquery_map == _build_subquery_map(statement.index, statement.sources)
        target_table == _target_table_from_statement(statement)
        b1 == AddSourcesAndTarget(builder, statement)
    IN IF ~HasTarget(target_table) THEN b1
       ELSE AddTableLineage(
                WarnInputs(b1, AllInputs(statement), statement, subquery_map),
                DependencyMapOf(statement.output.columns, statement, subquery_map),
                statement, target_table, subquery_map)

\* ------------------------------------------------------------------
\* graph.py: er_columns mode
\* ------------------------------------------------------------------

RECURSIVE AddErInputNodes(_, _, _, _)
\* the loop of _add_er_column_nodes over the inputs of one output column
AddErInputNodes(builder, inputs, statement, subquery_map) ==
    IF inputs = <<>> THEN builder
    ELSE LET before == AddErInputNodes(builder, Front(inputs), statement, subquery_map)
             input_ref == inputs[Len(inputs)]
             found == _resolve_with_subqueries(input_ref.table, statement.sources,
                                               statement.index, subquery_map)
             warned == WarnUnresolved(before, found.warning, statement.index, input_ref)
         IN add_node(warned,
                     ColumnNode(column_id(_resolved_full_name(found.resolved), input_ref.column),
                                _table_node_id_from_resolved(found.resolved),
                                input_ref.column, "Input column", statement.index))

_add_er_column_nodes(builder, output_column, statement, target_table, subquery_map) ==
    LET target_full == IF HasTarget(target_table) THEN target_table.full_name ELSE "unknown"
        b1 == IF target_full = "unknown"
              THEN add_node(builder, UnknownTableNode(statement.index)) ELSE builder
        b2 == add_node(b1, OutputColumnNode(column_id(target_full, output_column.name),
                                            table_id(target_full), output_column.name,
                                            output_column.lineage.literals, statement.index))
    IN AddErInputNodes(b2, output_column.lineage.inputs, statement, subquery_map)

RECURSIVE AddErNodes(_, _, _, _, _)
AddErNodes(builder, output_columns, statement, target_table, subquery_map) ==
    IF output_columns = <<>> THEN builder
    ELSE _add_er_column_nodes(
             AddErNodes(builder, Front(output_columns), statement, target_table, subquery_map),
             output_columns[Len(output_columns)], statement, target_table, subquery_map)

RECURSIVE AddColLineage(_, _, _, _, _, _)
\* the inner loop of _add_er_column_edges over the inputs of one output column
AddColLineage(builder, inputs, output_column, output_col_id, statement, subquery_map) ==
    IF inputs = <<>> THEN builder
    ELSE LET before == AddColLineage(builder, Front(inputs), output_column, output_col_id,
                                     statement, subquery_map)
             input_ref == inputs[Len(inputs)]
             found == _resolve_with_subqueries(input_ref.table, statement.sources,
                                               statement.index, subquery_map)
             warned == WarnUnresolved(before, found.warning, statement.index, input_ref)
             \* lineage["mapping"][0]["reason"]: the analysis gives every column a mapping
             how == output_column.lineage.mapping[1].reason
         IN add_edge(warned, "col_lineage",
                     column_id(_resolved_full_name(found.resolved), input_ref.column),
                     output_col_id, "Column lineage", statement.index,
                     [how |-> how, expression_sql |-> output_column.expression])

RECURSIVE _add_er_column_edges(_, _, _, _, _)
_add_er_column_edges(builder, output_columns, statement, target_table, subquery_map) ==
    IF output_columns = <<>> THEN builder
    ELSE LET output_column == output_columns[Len(output_columns)]
             target_full == IF HasTarget(target_table) THEN target_table.full_name
                            ELSE "unknown"
         IN AddColLineage(
                _add_er_column_edges(builder, Front(output_columns), statement, target_table,
                                     subquery_map),
                output_column.lineage.inputs, output_column,
                column_id(target_full, output_column.name), statement, subquery_map)

\* What the str operations of _add_fk_like_edges make of the join conditions
\* of the model: condition.split("=", 1) stripped, and for each side
\* side.split(".", 1) and col.endswith("id").
NoSide == [text |-> "", dotted |-> FALSE, table |-> "", col |-> "", ends_id |-> FALSE]

Side(text, table, col, ends_id) ==
    [text |-> text, dotted |-> TRUE, table |-> table, col |-> col, ends_id |-> ends_id]

ConditionParts(condition) ==
    CASE condition = "a.id = b.id" ->
            [has_eq |-> TRUE, left |-> Side("a.id", "a", "id", TRUE),
             right |-> Side("b.id", "b", "id", TRUE)]
      [] condition = "a.x = s.x" ->
            [has_eq |-> TRUE, left |-> Side("a.x", "a", "x", FALSE),
             right |-> Side("s.x", "s", "x", FALSE)]
      [] OTHER -> [has_eq |-> FALSE, left |-> NoSide, right |-> NoSide]

RECURSIVE AddFkLikeEdges(_, _, _, _)
AddFkLikeEdges(builder, joins, statement, subquery_map) ==
    IF joins = <<>> THEN builder
    ELSE LET before == AddFkLikeEdges(builder, Front(joins), statement, subquery_map)
             condition == joins[Len(joins)].condition
             parts == ConditionParts(condition)
             left == _resolve_with_subqueries(parts.left.table, statement.sources,
                                              statement.index, subquery_map)
             right == _resolve_with_subqueries(parts.right.table, statement.sources,
                                               statement.index, subquery_map)
             warned == WarnUnresolved(
                           WarnUnresolved(before, left.warning, statement.index,
                                          parts.left.text),
                           right.warning, statement.index, parts.right.text)
         IN IF ~parts.has_eq THEN before
            ELSE IF ~parts.left.dotted \/ ~parts.right.dotted THEN before
            ELSE IF parts.left.ends_id \/ parts.right.ends_id
                 THEN add_edge(warned, "fk_like",
                          column_id(_resolved_full_name(left.resolved), parts.left.col),
                          column_id(_resolved_full_name(right.resolved), parts.right.col),
                          "FK-like join condition", statement.index,
                          [how |-> "join", expression_sql |-> condition])
                 ELSE warned

_add_fk_like_edges(builder, statement, subquery_map) ==
    AddFkLikeEdges(builder, statement.joins, statement, subquery_map)

\* the body of the loop of _build_er_columns_graph, for one statement
ErColumnsStatement(builder, statement) ==
    LET subquery_map == _build_subquery_map(statement.index, statement.sources)
        target_table == _target_table_from_statement(statement)
        b1 == AddSourcesAndTarget(builder, statement)
        b2 == AddErNodes(b1, statement.output.columns, statement, target_table, subquery_map)
        b3 == _add_er_column_edges(b2, statement.output.columns, statement, target_table,
                                   subquery_map)
    IN _add_fk_like_edges(b3, statement, subquery_map)

\* the names of the column nodes whose table_id is node_id, in node order
OwnedColumns(nodes, node_id) ==
    LET owned == SelectSeq(nodes, LAMBDA n : n.type = "column" /\ n.table_id = node_id)
    IN [i \in 1..Len(owned) |-> owned[i].name]

\* node["columns"] = columns
WithColumns(node, columns) ==
    [f \in DOMAIN node \cup {"columns"} |-> IF f = "columns" THEN columns ELSE node[f]]

\* _ensure_table_columns with a plausible slip: the columns of a relation node
\* are those its own statement added, as if the list were filled when the
\* node was registered
_ensure_table_columns_same_statement(builder) ==
    [builder EXCEPT !.nodes =
        [i \in 1..Len(builder.nodes) |->
            IF builder.nodes[i].type \in {"table", "cte", "subquery"}
            THEN WithColumns(builder.nodes[i],
                     ensure_unique_columns(OwnedColumns(
                         SelectSeq(builder.nodes,
                                   LAMBDA n : n.statement_index = builder.nodes[i].statement_index),
                         builder.nodes[i].id)))
            ELSE builder.nodes[i]]]

_ensure_table_columns(builder) ==
    [builder EXCEPT !.nodes =
        [i \in 1..Len(builder.nodes) |->
            IF builder.nodes[i].type \in {"table", "cte", "subquery"}
            THEN WithColumns(builder.nodes[i],
                     ensure_unique_columns(OwnedColumns(builder.nodes, builder.nodes[i].id)))
            ELSE builder.nodes[i]]]

\* ------------------------------------------------------------------
\* graph.py: build_graph
\* ------------------------------------------------------------------

GRAPH_MODES == {"full", "er_columns", "tables_only"}

\* mode.lower(), on the mode names given to build_graph
LowerMode(mode) ==
    CASE mode = "FULL" -> "full"
      [] mode = "Tables_Only" -> "tables_only"
      [] OTHER -> mode

\* the mode build_graph builds in
EffectiveMode(mode) == IF LowerMode(mode) \in GRAPH_MODES THEN LowerMode(mode) ELSE "full"

\* InitialGraph with a plausible slip: the unknown mode is recorded as an
\* error, but graph["mode"] keeps the name that was asked for
InitialGraphKeepsMode(analysis, mode) ==
    [dialect |-> analysis.dialect,
     mode |-> LowerMode(mode),
     meta |-> [statements |-> Len(analysis.statements), library |-> "sql_lineage",
               version |-> "0.2.0"],
     nodes |-> <<>>, edges |-> <<>>,
     errors |-> IF LowerMode(mode) \in GRAPH_MODES THEN analysis.errors
                ELSE Append(analysis.errors, "Unsupported graph mode: " \o mode),
     warnings |-> <<>>]

\* the graph dict build_graph starts from, after its mode check; meta.generated_at,
\* the wall clock, is left out
InitialGraph(analysis, mode) ==
    [dialect |-> analysis.dialect,
     mode |-> EffectiveMode(mode),
     meta |-> [statements |-> Len(analysis.statements), library |-> "sql_lineage",
               version |-> "0.2.0"],
     nodes |-> <<>>, edges |-> <<>>,
     errors |-> IF LowerMode(mode) \in GRAPH_MODES THEN analysis.errors
                ELSE Append(analysis.errors, "Unsupported graph mode: " \o mode),
     warnings |-> <<>>]

\* BuildStatement with a plausible slip: the tables_only branch of the dispatch
\* is missing, so that tables_only falls through to the full builder
BuildStatementNoTablesOnly(builder, statement, mode) ==
    IF mode = "er_columns" THEN ErColumnsStatement(builder, statement)
    ELSE FullStatement(builder, statement)

\* the loop body of the builder build_graph dispatches to
BuildStatement(builder, statement, mode) ==
    IF mode = "tables_only" THEN TablesOnlyStatement(builder, statement)
    ELSE IF mode = "er_columns" THEN ErColumnsStatement(builder, statement)
    ELSE FullStatement(builder, statement)

\* what follows the loop: _ensure_table_columns in er_columns mode
AfterStatements(builder, mode) ==
    IF mode = "er_columns" THEN _ensure_table_columns(builder) ELSE builder

\* _GraphBuilder.finalize
finalize(graph, builder) ==
    [graph EXCEPT !.nodes = builder.nodes, !.edges = builder.edges,
                  !.warnings = builder.warnings]

\* ------------------------------------------------------------------
\* exporters.py.  A rendering is kept as the list of its lines, before
\* "\n".join(lines); the header line is the text itself, every other line is
\* kept as the values it is formatted from.
\* ------------------------------------------------------------------

\* format.lower(), on the format names given to export_graph
LowerFormat(format) ==
    CASE format = "JSON" -> "json"
      [] format = "Mermaid_ER" -> "mermaid_er"
      [] OTHER -> format

\* graph.setdefault("errors", []).append(message)
_append_error(graph, message) == [graph EXCEPT !.errors = Append(@, message)]

\* node.get(key, default)
NodeGet(node, key, default) == IF key \in DOMAIN node THEN node[key] ELSE default

\* _mermaid_id and _sanitize_er_name: every non-alphanumeric character of the
\* text becomes "_"; the characters are not modelled
Sanitized(text) == [sanitized |-> text]

_node_shape(node_type) ==
    IF node_type = "expression" THEN <<"{", "}">>
    ELSE IF node_type = "column" THEN <<"((", "))">>
    ELSE <<"[", "]">>

\* _mermaid_label without its quotes, which is also _dot_label
_dot_label(node) ==
    IF node.type = "column" THEN NodeGet(node, "name", "")
    ELSE IF node.type = "expression" THEN NodeGet(node, "sql", "")
    ELSE NodeGet(node, "full_name", NodeGet(node, "name", ""))

_export_mermaid_flowchart(graph) ==
    <<"flowchart LR">>
    \o [i \in 1..Len(graph.nodes) |->
           [node_id |-> Sanitized(graph.nodes[i].id), label |-> _dot_label(graph.nodes[i]),
            shape |-> _node_shape(graph.nodes[i].type)]]
    \o [i \in 1..Len(graph.edges) |->
           [from_id |-> Sanitized(graph.edges[i].from), edge_label |-> graph.edges[i].type,
            to_id |-> Sanitized(graph.edges[i].to)]]

\* the lines of one table of the ER diagram
ErTableLines(table) ==
    <<[table_name |-> Sanitized(NodeGet(table, "full_name", NodeGet(table, "name", "")))]>>
    \o [i \in 1..Len(NodeGet(table, "columns", <<>>)) |->
           [column_name |-> Sanitized(table.columns[i])]]
    \o <<"  }">>

_export_mermaid_er(graph) ==
    LET tables == SelectSeq(graph.nodes, LAMBDA node : node.type = "table")
        edges == SelectSeq(graph.edges,
                           LAMBDA edge : edge.type \in {"table_lineage", "joins_with"})
    IN <<"erDiagram">>
       \o Flatten([i \in 1..Len(tables) |-> ErTableLines(tables[i])])
       \o [i \in 1..Len(edges) |->
              [from_table |-> Sanitized(edges[i].from), label |-> edges[i].type,
               to_table |-> Sanitized(edges[i].to)]]

\* the keys of clusters, in the order the nodes first give them
ClusterKeys(nodes) ==
    UniqueSeq([i \in 1..Len(nodes) |-> NodeGet(nodes[i], "statement_index", 0)])

\* the lines of one cluster of the DOT digraph
ClusterLines(nodes, statement_index) ==
    LET cluster_nodes ==
            SelectSeq(nodes, LAMBDA node : NodeGet(node, "statement_index", 0) = statement_index)
    IN <<[subgraph |-> statement_index], [label |-> statement_index]>>
       \o [i \in 1..Len(cluster_nodes) |->
              [node_id |-> cluster_nodes[i].id, label |-> _dot_label(cluster_nodes[i])]]
       \o <<"  }">>

_export_graphviz_dot(graph) ==
    <<"digraph lineage {">>
    \o Flatten([k \in 1..Len(ClusterKeys(graph.nodes)) |->
                   ClusterLines(graph.nodes, ClusterKeys(graph.nodes)[k])])
    \o [i \in 1..Len(graph.edges) |->
           [from_id |-> graph.edges[i].from, label |-> graph.edges[i].type,
            to_id |-> graph.edges[i].to]]
    \o <<"}">>

\* export_graph with a plausible slip: the mode check of mermaid_er is missing
export_graph_any_mode(graph, format) ==
    IF LowerFormat(format) = "json" THEN [graph |-> graph, text |-> <<[json |-> graph]>>]
    ELSE IF LowerFormat(format) = "mermaid_flowchart"
    THEN [graph |-> graph, text |-> _export_mermaid_flowchart(graph)]
    ELSE IF LowerFormat(format) = "mermaid_er"
    THEN [graph |-> graph, text |-> _export_mermaid_er(graph)]
    ELSE IF LowerFormat(format) = "graphviz_dot"
    THEN [graph |-> graph, text |-> _export_graphviz_dot(graph)]
    ELSE [graph |-> _append_error(graph, "Unsupported export format: " \o format),
          text |-> _export_mermaid_flowchart(graph)]

\* export_graph: the graph as the call leaves it and the text it returns;
\* json.dumps(graph) is kept as the graph it encodes
export_graph(graph, format) ==
    IF LowerFormat(format) = "json" THEN [graph |-> graph, text |-> <<[json |-> graph]>>]
    ELSE IF LowerFormat(format) = "mermaid_flowchart"
    THEN [graph |-> graph, text |-> _export_mermaid_flowchart(graph)]
    ELSE IF LowerFormat(format) = "mermaid_er"
    THEN IF graph.mode \notin {"er_columns", "tables_only"}
         THEN [graph |-> _append_error(graph,
                   "Mermaid ER export is only supported for er_columns or tables_only modes."),
               text |-> _export_mermaid_flowchart(graph)]
         ELSE [graph |-> graph, text |-> _export_mermaid_er(graph)]
    ELSE IF LowerFormat(format) = "graphviz_dot"
    THEN [graph |-> graph, text |-> _export_graphviz_dot(graph)]
    ELSE [graph |-> _append_error(graph, "Unsupported export format: " \o format),
          text |-> _export_mermaid_flowchart(graph)]

\* ------------------------------------------------------------------
\* Inputs: SQL texts, by the statement trees the parser makes of them
\* ------------------------------------------------------------------

Tbl(db, name, alias) ==
    [node |-> "Table", db |-> db, name |-> name, alias |-> alias, this |-> NoQuery]

Sub(alias, query) ==
    [node |-> "Subquery", db |-> "", name |-> "", alias |-> alias, this |-> query]

\* exp.Column: table is "" for an unqualified reference
Col(table, name) == [table |-> table, name |-> name]

Item(alias, inner, columns, funcs, literals, sql) ==
    [alias |-> alias, inner |-> inner, columns |-> columns, funcs |-> funcs,
     literals |-> literals, sql |-> sql]

Sel(with, from, joins, expressions) ==
    [node |-> "Select", with |-> with, from |-> from, joins |-> joins,
     expressions |-> expressions]

\* SELECT a.x AS x FROM t a
AliasRenameSql ==
    Sel(<<>>, <<Tbl("", "t", "a")>>, <<>>,
        <<Item("x", "Column", <<Col("a", "x")>>, <<>>, <<>>, "a.x")>>)

\* SELECT COALESCE(a, b) AS v FROM t
CoalesceSql ==
    Sel(<<>>, <<Tbl("", "t", "")>>, <<>>,
        <<Item("v", "Coalesce", <<Col("", "a"), Col("", "b")>>, <<"coalesce">>, <<>>,
               "COALESCE(a, b)")>>)

\* WITH b AS (SELECT x FROM t), c AS (SELECT x FROM b) SELECT x FROM c
CteChainSql ==
    LET x == Item("", "Column", <<Col("", "x")>>, <<>>, <<>>, "x")
    IN Sel(<<[alias |-> "b", this |-> Sel(<<>>, <<Tbl("", "t", "")>>, <<>>, <<x>>)],
             [alias |-> "c", this |-> Sel(<<>>, <<Tbl("", "b", "")>>, <<>>, <<x>>)]>>,
           <<Tbl("", "c", "")>>, <<>>, <<x>>)

\* SELECT a AS v FROM t1 UNION ALL SELECT b AS v FROM t2
UnionSql ==
    [node |-> "Union",
     left |-> Sel(<<>>, <<Tbl("", "t1", "")>>, <<>>,
                  <<Item("v", "Column", <<Col("", "a")>>, <<>>, <<>>, "a")>>),
     right |-> Sel(<<>>, <<Tbl("", "t2", "")>>, <<>>,
                   <<Item("v", "Column", <<Col("", "b")>>, <<>>, <<>>, "b")>>)]

\* SELECT x FROM t1 a JOIN t2 b ON a.id = b.id
JoinSql ==
    Sel(<<>>, <<Tbl("", "t1", "a")>>,
        <<[this |-> Tbl("", "t2", "b"), kind |-> "", on |-> "a.id = b.id"]>>,
        <<Item("", "Column", <<Col("", "x")>>, <<>>, <<>>, "x")>>)

\* SELECT 1 AS one
LiteralSql ==
    Sel(<<>>, <<>>, <<>>, <<Item("one", "Literal", <<>>, <<>>, <<"1">>, "1")>>)

\* SELECT s.x FROM (SELECT x FROM t) s
SubquerySql ==
    Sel(<<>>,
        <<Sub("s", Sel(<<>>, <<Tbl("", "t", "")>>, <<>>,
                       <<Item("", "Column", <<Col("", "x")>>, <<>>, <<>>, "x")>>))>>,
        <<>>, <<Item("", "Column", <<Col("s", "x")>>, <<>>, <<>>, "s.x")>>)

\* SELECT s.x AS v FROM (SELECT x FROM t) s UNION ALL SELECT b AS v FROM t2
UnionSubquerySql ==
    [node |-> "Union",
     left |-> Sel(<<>>,
                  <<Sub("s", Sel(<<>>, <<Tbl("", "t", "")>>, <<>>,
                                 <<Item("", "Column", <<Col("", "x")>>, <<>>, <<>>, "x")>>))>>,
                  <<>>, <<Item("v", "Column", <<Col("s", "x")>>, <<>>, <<>>, "s.x")>>),
     right |-> Sel(<<>>, <<Tbl("", "t2", "")>>, <<>>,
                   <<Item("v", "Column", <<Col("", "b")>>, <<>>, <<>>, "b")>>)]

\* CREATE TABLE tgt AS SELECT a.x AS p, t.x AS q, a.x + a.y AS r FROM t a
CtasSql ==
    [node |-> "Create", this |-> Tbl("", "tgt", ""),
     expression |->
        Sel(<<>>, <<Tbl("", "t", "a")>>, <<>>,
            <<Item("p", "Column", <<Col("a", "x")>>, <<>>, <<>>, "a.x"),
              Item("q", "Column", <<Col("t", "x")>>, <<>>, <<>>, "t.x"),
              Item("r", "Add", <<Col("a", "x"), Col("a", "y")>>, <<>>, <<>>, "a.x + a.y")>>)]

\* INSERT INTO tgt SELECT x FROM t
InsertSql ==
    [node |-> "Insert", this |-> Tbl("", "tgt", ""),
     expression |-> Sel(<<>>, <<Tbl("", "t", "")>>, <<>>,
                        <<Item("", "Column", <<Col("", "x")>>, <<>>, <<>>, "x")>>)]

\* DROP TABLE t
DropSql == [node |-> "Drop", this |-> Tbl("", "t", ""), expression |-> NoQuery]

\* CREATE TABLE analytics.result LIKE core.users
CreateLikeSql ==
    [node |-> "Create", this |-> Tbl("analytics", "result", ""), expression |-> NoQuery]

\* CREATE TABLE tgt (a INT): the target is an exp.Schema, not an exp.Table
CreateSchemaSql ==
    [node |-> "Create",
     this |-> [node |-> "Schema", db |-> "", name |-> "tgt", alias |-> "", this |-> NoQuery],
     expression |-> NoQuery]

\* SELECT a.x AS v, a.y AS w FROM t a UNION ALL SELECT a.x AS v FROM t a
UnionUnevenSql ==
    [node |-> "Union",
     left |-> Sel(<<>>, <<Tbl("", "t", "a")>>, <<>>,
                  <<Item("v", "Column", <<Col("a", "x")>>, <<>>, <<>>, "a.x"),
                    Item("w", "Column", <<Col("a", "y")>>, <<>>, <<>>, "a.y")>>),
     right |-> Sel(<<>>, <<Tbl("", "t", "a")>>, <<>>,
                   <<Item("v", "Column", <<Col("a", "x")>>, <<>>, <<>>, "a.x")>>)]

\* SELECT a.x FROM (SELECT a.x FROM t a) a
SelfAliasSql ==
    Sel(<<>>,
        <<Sub("a", Sel(<<>>, <<Tbl("", "t", "a")>>, <<>>,
                       <<Item("", "Column", <<Col("a", "x")>>, <<>>, <<>>, "a.x")>>))>>,
        <<>>, <<Item("", "Column", <<Col("a", "x")>>, <<>>, <<>>, "a.x")>>)

Statements ==
    {AliasRenameSql, CoalesceSql, CteChainSql, UnionSql, JoinSql, LiteralSql, SubquerySql,
     UnionSubquerySql, CtasSql, InsertSql, DropSql, CreateLikeSql, CreateSchemaSql,
     UnionUnevenSql, SelfAliasSql}

\* the most statements one SQL text holds
MaxStatements == 2

StatementLists ==
    UNION {[1..n -> Statements] : n \in 1..MaxStatements}

\* the dialect names the external parser is asked for
ParserDialects == {"clickhouse", "postgres", "spark", "mysql", "oracle", "ansi"}

\* the sets of dialects under which a text parses
ParseSets == {{}, {"ansi"}, ParserDialects \ {"ansi"}, ParserDialects}

\* the dialect arguments of analyze and build_graph
DialectArgs == {"clickhouse", "mysql", " MySQL ", "Postgres", "oracle", "ansi"}

\* the format arguments of export_graph
FormatArgs ==
    {"json", "mermaid_flowchart", "mermaid_er", "graphviz_dot", "JSON", "Mermaid_ER", "svg"}

\* the mode arguments of build_graph
ModeArgs == {"full", "er_columns", "tables_only", "FULL", "Tables_Only", "graphviz"}

\* ------------------------------------------------------------------
\* The program: analyze(sql, dialect) and build_graph(sql, dialect, mode)
\* ------------------------------------------------------------------

VARIABLES
    sql,                \* the SQL text: [trees, parses]
    dialect,            \* the dialect argument
    mode,               \* the mode argument of build_graph
    entry,              \* the function called: "analyze" or "build_graph"
    pc,                 \* the position in the call
    normalized_dialect, \* analyze: normalized_dialect
    errors,             \* analyze: errors
    statements,         \* analyze: statements, the parse results
    dialect_used,       \* analyze: dialect_used
    analyses,           \* analyze: analyses
    parse_calls,        \* the dialects parse_sql was called with, in order
    result,             \* the dict analyze returned
    builder,            \* build_graph: the _GraphBuilder
    built,              \* build_graph: the statements the builder loop has done
    graph,              \* the graph dict of build_graph
    raised,             \* the exception that left the call, NoneStr if none
    export_format,      \* the format argument of export_graph, NoneStr before the call
    exported,           \* the lines of the text export_graph returned
    previous            \* what the first of two calls with the same arguments gave

vars ==
    <<sql, dialect, mode, entry, pc, normalized_dialect, errors, statements, dialect_used,
      analyses, parse_calls, result, builder, built, graph, raised, export_format,
      exported, previous>>

\* no dict returned yet
NoResult == [dialect |-> NoneStr, statements |-> <<>>, errors |-> <<>>]

NoGraph ==
    [dialect |-> NoneStr, mode |-> NoneStr,
     meta |-> [statements |-> 0, library |-> "sql_lineage", version |-> "0.2.0"],
     nodes |-> <<>>, edges |-> <<>>, errors |-> <<>>, warnings |-> <<>>]

\* no earlier call
NoCall == [made |-> FALSE]

Init ==
    /\ sql \in [trees : StatementLists, parses : ParseSets]
    /\ dialect \in DialectArgs
    /\ entry \in {"analyze", "build_graph"}
    /\ mode \in IF entry = "build_graph" THEN ModeArgs ELSE {"full"}
    /\ pc = "start"
    /\ normalized_dialect = NoneStr
    /\ errors = <<>>
    /\ statements = <<>>
    /\ dialect_used = NoneStr
    /\ analyses = <<>>
    /\ parse_calls = <<>>
    /\ result = NoResult
    /\ builder = NewBuilder
    /\ built = 0
    /\ graph = NoGraph
    /\ raised = NoneStr
    /\ export_format = NoneStr
    /\ exported = <<>>
    /\ previous = NoCall

\* analyze, lines 273-276: normalize the dialect, record an unsupported one
CheckDialect ==
    /\ pc = "start"
    /\ normalized_dialect' = normalize_dialect(dialect)
    /\ errors' = IF ~is_supported_dialect(normalize_dialect(dialect))
                 THEN Append(errors, "Unsupported dialect: " \o dialect)
                 ELSE errors
    /\ pc' = "parse"
    /\ UNCHANGED <<export_format, exported, previous, sql, dialect, mode, entry,
                   statements, dialect_used, analyses,
                   parse_calls, result, builder, built, graph, raised>>

\* analyze, lines 278-280: the parse under the requested dialect
ParseRequested ==
    /\ pc = "parse"
    /\ parse_calls' = Append(parse_calls, normalized_dialect)
    /\ LET parsed == parse_sql(sql, normalized_dialect)
       IN IF IsRaise(parsed)
          THEN /\ pc' = "fallback"
               /\ UNCHANGED <<statements, dialect_used>>
          ELSE /\ statements' = parsed
               /\ dialect_used' = normalized_dialect
               /\ pc' = "analyze"
    /\ UNCHANGED <<export_format, exported, previous, sql, dialect, mode, entry,
                   normalized_dialect, errors, analyses,
                   result, builder, built, graph, raised>>

\* ParseFallback with a plausible slip: the fallback succeeds silently, the
\* error describing it is not recorded
ParseFallbackSilent ==
    /\ pc = "fallback"
    /\ parse_calls' = Append(parse_calls, "ansi")
    /\ LET parsed == parse_sql(sql, "ansi")
       IN IF IsRaise(parsed)
          THEN /\ result' = [dialect |-> normalized_dialect, statements |-> <<>>,
                             errors |-> Append(errors, ParseErrorText)]
               /\ pc' = "returned"
               /\ UNCHANGED <<statements, dialect_used>>
          ELSE /\ statements' = parsed
               /\ dialect_used' = "ansi"
               /\ pc' = "analyze"
               /\ UNCHANGED result
    /\ UNCHANGED <<export_format, exported, previous, sql, dialect, mode, entry,
                   normalized_dialect, errors, analyses,
                   builder, built, graph, raised>>

\* analyze, lines 281-293: the except branch, the parse under "ansi"
ParseFallback ==
    /\ pc = "fallback"
    /\ parse_calls' = Append(parse_calls, "ansi")
    /\ LET parsed == parse_sql(sql, "ansi")
       IN IF IsRaise(parsed)
          THEN /\ result' = [dialect |-> normalized_dialect, statements |-> <<>>,
                             errors |-> Append(errors, ParseErrorText)]
               /\ pc' = "returned"
               /\ UNCHANGED <<statements, dialect_used, errors>>
          ELSE /\ statements' = parsed
               /\ dialect_used' = "ansi"
               /\ errors' = Append(errors,
                                "Failed to parse with dialect '" \o normalized_dialect
                                \o "', using ansi: " \o ParseErrorText)
               /\ pc' = "analyze"
               /\ UNCHANGED result
    /\ UNCHANGED <<export_format, exported, previous, sql, dialect, mode, entry,
                   normalized_dialect, analyses, builder,
                   built, graph, raised>>

\* analyze, lines 295-310: one turn of the loop over the statements; an
\* exception of _analyze_statement is caught nowhere and leaves the call
AnalyzeStatement ==
    /\ pc = "analyze"
    /\ Len(analyses) < Len(statements)
    /\ LET Step(index, analysis) ==
               IF IsRaise(analysis)
               THEN /\ raised' = analysis.raise
                    /\ pc' = "raised"
                    /\ UNCHANGED analyses
               ELSE /\ analyses' = Append(analyses, [analysis EXCEPT !.index = index])
                    /\ UNCHANGED <<pc, raised>>
       IN Step(Len(analyses) + 1,
               _analyze_statement(statements[Len(analyses) + 1], dialect_used))
    /\ UNCHANGED <<export_format, exported, previous, sql, dialect, mode, entry,
                   normalized_dialect, errors, statements,
                   dialect_used, parse_calls, result, builder, built, graph>>

\* analyze, lines 312-316: the return after the loop
AnalyzeReturn ==
    /\ pc = "analyze"
    /\ Len(analyses) = Len(statements)
    /\ result' = [dialect |-> dialect_used, statements |-> analyses, errors |-> errors]
    /\ pc' = "returned"
    /\ UNCHANGED <<export_format, exported, previous, sql, dialect, mode, entry,
                   normalized_dialect, errors, statements,
                   dialect_used, analyses, parse_calls, builder, built, graph, raised>>

\* build_graph, lines 27-48: the graph dict and the builder, once analyze returned
GraphInit ==
    /\ pc = "returned"
    /\ entry = "build_graph"
    /\ graph' = InitialGraph(result, mode)
    /\ builder' = NewBuilder
    /\ built' = 0
    /\ pc' = "build"
    /\ UNCHANGED <<export_format, exported, previous, sql, dialect, mode, entry,
                   normalized_dialect, errors, statements,
                   dialect_used, analyses, parse_calls, result, raised>>

\* one turn of the statement loop of the builder function of the mode
GraphStatement ==
    /\ pc = "build"
    /\ built < Len(result.statements)
    /\ builder' = BuildStatement(builder, result.statements[built + 1], graph.mode)
    /\ built' = built + 1
    /\ UNCHANGED <<export_format, exported, previous, sql, dialect, mode, entry,
                   pc, normalized_dialect, errors, statements,
                   dialect_used, analyses, parse_calls, result, graph, raised>>

\* the end of the builder function and builder.finalize()
GraphFinalize ==
    /\ pc = "build"
    /\ built = Len(result.statements)
    /\ builder' = AfterStatements(builder, graph.mode)
    /\ graph' = finalize(graph, AfterStatements(builder, graph.mode))
    /\ pc' = "done"
    /\ UNCHANGED <<export_format, exported, previous, sql, dialect, mode, entry,
                   normalized_dialect, errors, statements,
                   dialect_used, analyses, parse_calls, result, built, raised>>

\* export_graph(graph, format) on the graph build_graph returned
ExportGraph ==
    /\ pc = "done"
    /\ \E format \in FormatArgs :
          LET Leave(out) ==
                  /\ graph' = out.graph
                  /\ exported' = out.text
          IN /\ export_format' = format
             /\ Leave(export_graph(graph, format))
    /\ pc' = "exported"
    /\ UNCHANGED <<previous, sql, dialect, mode, entry, normalized_dialect, errors,
                   statements, dialect_used, analyses, parse_calls, result, builder, built,
                   raised>>

\* the call is over: analyze or build_graph returned, or an exception left it
CallOver ==
    \/ pc = "raised"
    \/ pc = "returned" /\ entry = "analyze"
    \/ pc = "done"

\* what a call that is over gave its caller
Outcome == [made |-> TRUE, pc |-> pc, result |-> result, graph |-> graph, raised |-> raised]

\* CallAgain with a plausible slip: the error list outlives the call (a list
\* shared between calls, as a mutable default argument is)
CallAgainSharedErrors ==
    /\ ~previous.made
    /\ CallOver
    /\ previous' = Outcome
    /\ pc' = "start"
    /\ normalized_dialect' = NoneStr
    /\ statements' = <<>>
    /\ dialect_used' = NoneStr
    /\ analyses' = <<>>
    /\ parse_calls' = <<>>
    /\ result' = NoResult
    /\ builder' = NewBuilder
    /\ built' = 0
    /\ graph' = NoGraph
    /\ raised' = NoneStr
    /\ UNCHANGED <<sql, dialect, mode, entry, errors, export_format, exported>>

\* a second call of the same function with the same arguments, in the same
\* process: its locals (analyze, lines 272-295; build_graph, lines 27-48) are
\* new objects, the modules hold no mutable state
CallAgain ==
    /\ ~previous.made
    /\ CallOver
    /\ previous' = Outcome
    /\ pc' = "start"
    /\ normalized_dialect' = NoneStr
    /\ errors' = <<>>
    /\ statements' = <<>>
    /\ dialect_used' = NoneStr
    /\ analyses' = <<>>
    /\ parse_calls' = <<>>
    /\ result' = NoResult
    /\ builder' = NewBuilder
    /\ built' = 0
    /\ graph' = NoGraph
    /\ raised' = NoneStr
    /\ UNCHANGED <<sql, dialect, mode, entry, export_format, exported>>

Next ==
    \/ CheckDialect
    \/ ParseRequested
    \/ ParseFallback
    \/ AnalyzeStatement
    \/ AnalyzeReturn
    \/ GraphInit
    \/ GraphStatement
    \/ GraphFinalize
    \/ ExportGraph

Spec == Init /\ [][Next]_vars

\* the same function, analyze or build_graph, called twice with the same
\* arguments
TwiceNext ==
    \/ CheckDialect
    \/ ParseRequested
    \/ ParseFallback
    \/ AnalyzeStatement
    \/ AnalyzeReturn
    \/ GraphInit
    \/ GraphStatement
    \/ GraphFinalize
    \/ CallAgain

TwiceSpec == Init /\ [][TwiceNext]_vars

\* ------------------------------------------------------------------
\* The graph builders on their own: _build_full_graph, _build_er_columns_graph
\* and _build_tables_only_graph take the statement dicts of an analysis, in the
\* shape StatementAnalysis.to_dict gives them
\* ------------------------------------------------------------------

\* a "sources" entry of a statement dict
Src(type, name, database, alias) ==
    [type |-> type, name |-> name, database |-> database, alias |-> alias]

\* an output column dict with one mapping entry
Out(name, expression, type, inputs, reason, functions, literals) ==
    OutputColumn(name, expression,
        LineageData(type, inputs,
            <<LineageMapping(name, SelectSeq(inputs, LAMBDA ref : ref.table # NoneStr),
                             reason)>>,
            functions, literals, <<>>),
        build_dependencies(inputs, NoContext))

\* an entry of "unions" or "subqueries": the dict of a nested analysis
Nested(sources, output_columns) ==
    [sources |-> sources, output |-> [columns |-> output_columns], joins |-> <<>>,
     unions |-> <<>>, subqueries |-> <<>>]

\* DROP TABLE t: nothing but the statement type
DropDict == StatementAnalysis(0, "drop", NoTarget, <<>>, <<>>, <<>>, <<>>, <<>>, <<>>)

\* CREATE TABLE analytics.result LIKE core.users: a target and nothing else
CreateLikeDict ==
    StatementAnalysis(0, "create",
        [type |-> "table", name |-> "result", database |-> "analytics",
         raw |-> "analytics.result"],
        <<>>, <<>>, <<>>, <<>>, <<>>, <<>>)

\* CREATE TABLE tgt AS SELECT a.x AS p, t.x AS q, a.x + a.y AS r FROM t a
CtasDict ==
    StatementAnalysis(0, "create",
        [type |-> "table", name |-> "tgt", database |-> "", raw |-> "tgt"],
        <<Out("p", "a.x", "column_rename", <<ColumnRef("a", "x")>>, "alias", <<>>, <<>>),
          Out("q", "t.x", "column_rename", <<ColumnRef("t", "x")>>, "alias", <<>>, <<>>),
          Out("r", "a.x + a.y", "expression", <<ColumnRef("a", "x"), ColumnRef("a", "y")>>,
              "expression", <<>>, <<>>)>>,
        <<Src("table", "t", "", "a")>>, <<>>, <<>>, <<>>, <<>>)

\* SELECT x FROM t1 a JOIN t2 b ON a.id = b.id: no target, an input without a table
JoinDict ==
    StatementAnalysis(0, "select", NoTarget,
        <<Out("x", "x", "expression", <<ColumnRef(NoneStr, "x")>>, "expression", <<>>, <<>>)>>,
        <<Src("table", "t1", "", "a"), Src("table", "t2", "", "b")>>,
        <<[join_type |-> "inner", right |-> Src("table", "t2", "", "b"),
           condition |-> "a.id = b.id"]>>,
        <<>>, <<>>, <<>>)

\* INSERT INTO analytics.result WITH c AS (SELECT x FROM t)
\* SELECT COALESCE(a, b) AS v FROM c, (SELECT x FROM t) s: a CTE, a subquery and a
\* table among the sources, a function in the select item
InsertDict ==
    StatementAnalysis(0, "insert",
        [type |-> "table", name |-> "result", database |-> "analytics",
         raw |-> "analytics.result"],
        <<Out("v", "COALESCE(a, b)", "expression",
              <<ColumnRef("c", "x"), ColumnRef("t", "x"), ColumnRef("s", "x")>>,
              "expression", <<"coalesce">>, <<>>)>>,
        <<Src("cte", "c", "", ""), Src("subquery", "s", "", "s"), Src("table", "t", "", "")>>,
        <<>>, <<>>,
        <<Nested(<<Src("table", "t", "", "")>>,
                 <<Out("x", "x", "expression", <<ColumnRef("t", "x")>>, "expression",
                       <<>>, <<>>)>>)>>,
        <<>>)

\* CREATE TABLE tgt AS SELECT a AS v FROM t1 UNION ALL SELECT b AS v FROM t2
UnionDict ==
    StatementAnalysis(0, "create",
        [type |-> "table", name |-> "tgt", database |-> "", raw |-> "tgt"],
        <<Out("v", "a", "union", <<ColumnRef("t1", "a"), ColumnRef("t2", "b")>>, "union",
              <<>>, <<>>)>>,
        <<Src("table", "t1", "", ""), Src("table", "t2", "", "")>>, <<>>,
        <<Nested(<<Src("table", "t1", "", "")>>,
                 <<Out("v", "a", "column_rename", <<ColumnRef("t1", "a")>>, "alias",
                       <<>>, <<>>)>>),
          Nested(<<Src("table", "t2", "", "")>>,
                 <<Out("v", "b", "column_rename", <<ColumnRef("t2", "b")>>, "alias",
                       <<>>, <<>>)>>)>>,
        <<>>, <<>>)

\* CREATE TABLE tgt AS SELECT z.x AS v, y AS w FROM t1 a JOIN t2 b ON a.id = b.id:
\* a target, a qualifier that names no source, and an input without a table
UnresolvedDict ==
    StatementAnalysis(0, "create",
        [type |-> "table", name |-> "tgt", database |-> "", raw |-> "tgt"],
        <<Out("v", "z.x", "column_rename", <<ColumnRef("z", "x")>>, "alias", <<>>, <<>>),
          Out("w", "y", "column_rename", <<ColumnRef(NoneStr, "y")>>, "alias", <<>>, <<>>)>>,
        <<Src("table", "t1", "", "a"), Src("table", "t2", "", "b")>>,
        <<[join_type |-> "inner", right |-> Src("table", "t2", "", "b"),
           condition |-> "a.id = b.id"]>>,
        <<>>, <<>>, <<>>)

\* WITH c AS (SELECT x FROM t) SELECT a.x FROM t1 a
\* JOIN (SELECT id FROM t2) s ON a.id = s.id LEFT JOIN c ON a.id = c.x:
\* the sources list the CTE and the table of its body first, then the subquery
\* and the table of its body, then the FROM table; the join on the derived
\* subquery has no right entry
CteJoinDict ==
    StatementAnalysis(0, "select", NoTarget,
        <<Out("x", "a.x", "expression", <<ColumnRef("a", "x")>>, "expression", <<>>, <<>>)>>,
        <<Src("cte", "c", "", "c"), Src("table", "t", "", ""), Src("subquery", "s", "", "s"),
          Src("table", "t2", "", ""), Src("table", "t1", "", "a")>>,
        <<[join_type |-> "inner", right |-> NoEntry, condition |-> "a.id = s.id"],
          [join_type |-> "left", right |-> Src("table", "c", "", ""),
           condition |-> "a.id = c.x"]>>,
        <<>>,
        <<Nested(<<Src("table", "t2", "", "")>>,
                 <<Out("id", "id", "expression", <<ColumnRef("t2", "id")>>, "expression",
                       <<>>, <<>>)>>)>>,
        <<>>)

StatementDicts ==
    {DropDict, CreateLikeDict, CtasDict, JoinDict, InsertDict, UnionDict, UnresolvedDict,
     CteJoinDict}

\* the most statement dicts one analysis holds
MaxDicts == 2

\* the "statements" lists of an analysis: analyze numbers its statements from 1
AnalysisStatements ==
    {[i \in 1..Len(list) |-> [list[i] EXCEPT !.index = i]] :
        list \in UNION {[1..n -> StatementDicts] : n \in 1..MaxDicts}}

\* build_graph from the point where analyze has returned an analysis
BuilderInit ==
    /\ sql = [trees |-> <<>>, parses |-> {}]
    /\ dialect = "mysql"
    /\ entry = "build_graph"
    /\ mode \in ModeArgs
    /\ pc = "returned"
    /\ normalized_dialect = "mysql"
    /\ errors \in {<<>>, <<"Unsupported dialect: tsql">>}
    /\ statements = <<>>
    /\ dialect_used = "mysql"
    /\ analyses \in AnalysisStatements
    /\ parse_calls = <<"mysql">>
    /\ result = [dialect |-> dialect_used, statements |-> analyses, errors |-> errors]
    /\ builder = NewBuilder
    /\ built = 0
    /\ graph = NoGraph
    /\ raised = NoneStr
    /\ export_format = NoneStr
    /\ exported = <<>>
    /\ previous = NoCall

BuilderNext ==
    \/ GraphInit
    \/ GraphStatement
    \/ GraphFinalize
    \/ ExportGraph

BuilderSpec == BuilderInit /\ [][BuilderNext]_vars

\* ------------------------------------------------------------------
\* Properties
\* ------------------------------------------------------------------

\* the call to analyze is over: it returned a dict or an exception left it
AnalyzeOver == pc \in {"returned", "raised", "build", "done"}

\* the call to build_graph is over
GraphOver == entry = "build_graph" /\ pc \in {"raised", "done"}

\* the parse succeeded and the text's statement i is tree
Holds(i, tree) == i \in 1..Len(statements) /\ statements[i].expression = tree

\* analyze returned, and its dict reports statement i
Reported(i) == pc # "raised" /\ i \in 1..Len(result.statements)

ColumnsOf(i) == result.statements[i].output.columns

\* the statement whose analysis raised
RaisedIn(tree) ==
    /\ pc = "raised"
    /\ raised = "TypeError"
    /\ Holds(Len(analyses) + 1, tree)

\* C1: CTE chain expansion.  Once analyze is over for a text that holds
\* WITH b AS (SELECT x FROM t), c AS (SELECT x FROM b) SELECT x FROM c, the
\* result reports that statement with an output column x whose inputs include
\* the base reference {table: t, column: x}.
C1_CteChainExpansion ==
    \A i \in 1..Len(statements) :
        (AnalyzeOver /\ Holds(i, CteChainSql)) =>
            /\ Reported(i)
            /\ \E k \in 1..Len(ColumnsOf(i)) :
                   /\ ColumnsOf(i)[k].name = "x"
                   /\ InSeq(ColumnRef("t", "x"), ColumnsOf(i)[k].lineage.inputs)

\* C1: the analysis of the CTE chain ended in TypeError, with no result
C1_ChainRaised == RaisedIn(CteChainSql)

\* C2: unqualified resolution.  Once analyze is over, an unqualified x over the
\* single FROM table t (INSERT INTO tgt SELECT x FROM t) is reported as the
\* input {t, x} without a note, and an unqualified x over the two tables of
\* SELECT x FROM t1 a JOIN t2 b is reported as {null, x} with an
\* ambiguous_column note naming x: the statement's analysis completes in both.
C2_UnqualifiedResolution ==
    \A i \in 1..Len(statements) :
        /\ (AnalyzeOver /\ Holds(i, InsertSql)) =>
               /\ Reported(i)
               /\ Len(ColumnsOf(i)) = 1
               /\ ColumnsOf(i)[1].lineage.inputs = <<ColumnRef("t", "x")>>
               /\ ColumnsOf(i)[1].lineage.notes = <<>>
        /\ (AnalyzeOver /\ Holds(i, JoinSql)) =>
               /\ Reported(i)
               /\ Len(ColumnsOf(i)) = 1
               /\ ColumnsOf(i)[1].lineage.inputs = <<ColumnRef(NoneStr, "x")>>
               /\ ColumnsOf(i)[1].lineage.notes = <<[ambiguous_column |-> "x"]>>

\* C2: the analysis of the join with the ambiguous column did not complete
C2_JoinRaised == RaisedIn(JoinSql)

\* the names of the CTEs and the aliases of the subqueries of a statement, as
\* its report lists them
IntermediateNames(statement) ==
    {statement.sources[k].name : k \in {j \in 1..Len(statement.sources) :
                                           statement.sources[j].type \in {"cte", "subquery"}}}

\* C3: dependencies name base tables only.  Once analyze is over for a text that
\* holds a SELECT over an aliased subquery, a UNION over one, or a query over
\* CTEs, the statement is reported with output columns, and no Dependency of
\* any of them names a CTE or an aliased subquery of the statement.
C3_DependenciesNameBaseTables ==
    \A i \in 1..Len(statements) :
        (AnalyzeOver /\ \/ Holds(i, SubquerySql)
                        \/ Holds(i, UnionSubquerySql)
                        \/ Holds(i, CteChainSql)) =>
            /\ Reported(i)
            /\ ColumnsOf(i) # <<>>
            /\ \A k \in 1..Len(ColumnsOf(i)) :
                   \A d \in 1..Len(ColumnsOf(i)[k].dependencies) :
                       ColumnsOf(i)[k].dependencies[d].table
                           \notin IntermediateNames(result.statements[i])

\* C3: the analysis of the SELECT over an aliased subquery ended in TypeError
C3_SubqueryRaised == RaisedIn(SubquerySql)

\* C4: union pairing.  Once analyze is over for a text that holds
\* SELECT a AS v FROM t1 UNION ALL SELECT b AS v FROM t2, the statement is
\* reported with exactly one output column, named v after the left branch, of
\* lineage type union, with a single mapping of reason union and with inputs
\* that contain {t1, a} and {t2, b}.
C4_UnionPairing ==
    \A i \in 1..Len(statements) :
        (AnalyzeOver /\ Holds(i, UnionSql)) =>
            /\ Reported(i)
            /\ Len(ColumnsOf(i)) = 1
            /\ ColumnsOf(i)[1].name = "v"
            /\ ColumnsOf(i)[1].lineage.type = "union"
            /\ Len(ColumnsOf(i)[1].lineage.mapping) = 1
            /\ ColumnsOf(i)[1].lineage.mapping[1].reason = "union"
            /\ InSeq(ColumnRef("t1", "a"), ColumnsOf(i)[1].lineage.inputs)
            /\ InSeq(ColumnRef("t2", "b"), ColumnsOf(i)[1].lineage.inputs)

\* C4: the analysis of the UNION ended in TypeError
C4_UnionRaised == RaisedIn(UnionSql)

\* C5: alias rename.  Once analyze is over for a text that holds
\* SELECT a.x AS x FROM t a, the statement is reported with the output column
\* x of lineage type column_rename, mapping reason alias and inputs exactly
\* [{table: a, column: x}].
C5_AliasRename ==
    \A i \in 1..Len(statements) :
        (AnalyzeOver /\ Holds(i, AliasRenameSql)) =>
            /\ Reported(i)
            /\ Len(ColumnsOf(i)) = 1
            /\ ColumnsOf(i)[1].name = "x"
            /\ ColumnsOf(i)[1].lineage.type = "column_rename"
            /\ ColumnsOf(i)[1].lineage.mapping[1].reason = "alias"
            /\ ColumnsOf(i)[1].lineage.inputs = <<ColumnRef("a", "x")>>

\* C5: the analysis of the alias rename ended in TypeError
C5_AliasRaised == RaisedIn(AliasRenameSql)

\* C6: dialect alias surfacing.  Once analyze is over for a text that holds
\* SELECT COALESCE(a, b) AS v FROM t, the statement is reported and the
\* functions of v hold coalesce and ifnull when the analysis dialect is mysql,
\* and coalesce without ifnull when it is clickhouse, postgres or spark; no
\* reported column holds ifnull without coalesce.
C6_DialectAliasSurfacing ==
    \A i \in 1..Len(statements) :
        /\ (AnalyzeOver /\ Holds(i, CoalesceSql) /\ dialect_used \in SUPPORTED_DIALECTS) =>
               /\ Reported(i)
               /\ Len(ColumnsOf(i)) = 1
               /\ InSeq("coalesce", ColumnsOf(i)[1].lineage.functions)
               /\ InSeq("ifnull", ColumnsOf(i)[1].lineage.functions)
                      <=> (result.dialect = "mysql")
        /\ Reported(i) =>
               \A k \in 1..Len(ColumnsOf(i)) :
                   InSeq("ifnull", ColumnsOf(i)[k].lineage.functions)
                       => InSeq("coalesce", ColumnsOf(i)[k].lineage.functions)

\* C6: the analysis of the COALESCE under mysql ended in TypeError
C6_CoalesceRaised == RaisedIn(CoalesceSql) /\ dialect_used = "mysql"

\* C7: no unhandled fault.  No exception leaves analyze or build_graph, whatever
\* the statements of a text that parses and whatever the mode name.
C7_NoUnhandledFault == raised = NoneStr /\ pc # "raised"

\* C7: the text SELECT 1 AS one parsed under the requested dialect, and the
\* TypeError of AnalysisContext(...) left the call
C7_LiteralSelectRaised ==
    /\ RaisedIn(LiteralSql)
    /\ parse_calls = <<normalized_dialect>>
    /\ sql.trees = <<LiteralSql>>

\* the error analyze records for a fallback
FallbackError ==
    "Failed to parse with dialect '" \o normalized_dialect \o "', using ansi: "
        \o ParseErrorText

\* how often list holds text
Count(list, text) == Cardinality({k \in 1..Len(list) : list[k] = text})

\* the parses of analyze are over
ParsePhaseOver == pc \in {"analyze", "raised", "returned", "build", "done"}

\* analyze returned a dict
Returned == pc \in {"returned", "build", "done"}

NodesWithId(node_id) == {k \in 1..Len(graph.nodes) : graph.nodes[k].id = node_id}

EdgesBetween(edge_type, from_node, to_node) ==
    {graph.edges[k].id : k \in {j \in 1..Len(graph.edges) :
                                 /\ graph.edges[j].type = edge_type
                                 /\ graph.edges[j].from = from_node
                                 /\ graph.edges[j].to = to_node}}

\* C9: graph node identity, full mode.  Once build_graph is over in full mode for
\* the text CREATE TABLE tgt AS SELECT a.x AS p, t.x AS q, a.x + a.y AS r FROM t a,
\* whose outputs p and q both read column x of table t, once through the alias
\* and once through the name, the graph holds exactly one column node for t.x,
\* and one lineage edge from it to each of tgt.p and tgt.q, with different ids.
C9_GraphNodeIdentity ==
    (GraphOver /\ EffectiveMode(mode) = "full" /\ sql.trees = <<CtasSql>>
        /\ statements # <<>>) =>
        /\ pc = "done"
        /\ Cardinality(NodesWithId("column:t.x")) = 1
        /\ Cardinality(EdgesBetween("lineage", "column:t.x", "column:tgt.p")) = 1
        /\ Cardinality(EdgesBetween("lineage", "column:t.x", "column:tgt.q")) = 1
        /\ EdgesBetween("lineage", "column:t.x", "column:tgt.p")
               # EdgesBetween("lineage", "column:t.x", "column:tgt.q")

\* C9: build_graph in full mode ended in TypeError on the CREATE TABLE AS
C9_FullGraphRaised ==
    /\ RaisedIn(CtasSql)
    /\ entry = "build_graph"
    /\ EffectiveMode(mode) = "full"
    /\ sql.trees = <<CtasSql>>

\* C10: tables_only aggregation.  Once build_graph is over in tables_only mode for
\* the text CREATE TABLE tgt AS SELECT a.x AS p, t.x AS q, a.x + a.y AS r FROM t a,
\* the graph holds exactly one table_lineage edge from t to tgt, and its
\* columns_count is 3, the number of output columns that derive from t (r, with
\* two inputs from t, counts once).
C10_TablesOnlyAggregation ==
    (GraphOver /\ EffectiveMode(mode) = "tables_only" /\ sql.trees = <<CtasSql>>
        /\ statements # <<>>) =>
        /\ pc = "done"
        /\ Cardinality(EdgesBetween("table_lineage", "table:t", "table:tgt")) = 1
        /\ \A k \in 1..Len(graph.edges) :
               graph.edges[k].type = "table_lineage"
                   => graph.edges[k].details.columns_count = 3

\* C10: build_graph in tables_only mode ended in TypeError on the CREATE TABLE AS
C10_TablesOnlyRaised ==
    /\ RaisedIn(CtasSql)
    /\ entry = "build_graph"
    /\ EffectiveMode(mode) = "tables_only"
    /\ sql.trees = <<CtasSql>>

\* ------------------------------------------------------------------
\* Claims on the graph builders and on repeated calls
\* ------------------------------------------------------------------

\* the node types of relations
RelationTypes == {"table", "cte", "subquery"}

\* the edge types that touch column or expression nodes
ColumnEdgeTypes == {"contains", "produces", "uses", "lineage", "col_lineage"}

\* C11: while and after a graph is built in tables_only mode, whatever the
\* statements, every node of the builder and of the graph is a table, cte or
\* subquery node (none is a column or expression node) and no edge has type
\* contains, produces, uses, lineage or col_lineage.
C11_TablesOnlyRelationsOnly ==
    graph.mode = "tables_only" =>
        /\ \A i \in 1..Len(builder.nodes) : builder.nodes[i].type \in RelationTypes
        /\ \A i \in 1..Len(graph.nodes) : graph.nodes[i].type \in RelationTypes
        /\ \A i \in 1..Len(builder.edges) : builder.edges[i].type \notin ColumnEdgeTypes
        /\ \A i \in 1..Len(graph.edges) : graph.edges[i].type \notin ColumnEdgeTypes

\* a finished tables_only graph of a statement with output columns, holding a
\* cte node, a subquery node, a table node and a table_lineage edge
C11_TablesOnlyBuilt ==
    /\ pc = "done"
    /\ graph.mode = "tables_only"
    /\ \E i \in 1..Len(result.statements) : result.statements[i].output.columns # <<>>
    /\ \A ty \in RelationTypes : \E i \in 1..Len(graph.nodes) : graph.nodes[i].type = ty
    /\ \E i \in 1..Len(graph.edges) : graph.edges[i].type = "table_lineage"

\* the names of the concrete tables among the reported sources of a statement
ConcreteTables(statement) ==
    {statement.sources[k].name : k \in {j \in 1..Len(statement.sources) :
                                           statement.sources[j].type = "table"}}

\* the tables the Dependency list of an output column has entries for
DependencyTables(column) ==
    {column.dependencies[d].table : d \in 1..Len(column.dependencies)}

\* C12: dependency footprint.  Once analyze is over for a text that holds a
\* join whose column reads neither table by name, a query over CTEs whose base
\* table is reached only inside a CTE body, or a UNION, the statement is
\* reported with output columns, and the Dependency list of each of them has
\* an entry for every concrete table among the statement's reported sources.
C12_DependencyFootprint ==
    \A i \in 1..Len(statements) :
        (AnalyzeOver /\ \/ Holds(i, JoinSql)
                        \/ Holds(i, CteChainSql)
                        \/ Holds(i, UnionUnevenSql)) =>
            /\ Reported(i)
            /\ ColumnsOf(i) # <<>>
            /\ \A k \in 1..Len(ColumnsOf(i)) :
                   ConcreteTables(result.statements[i]) \subseteq DependencyTables(ColumnsOf(i)[k])

\* C12: the analysis of the UNION over the aliased table ended in TypeError
C12_UnionUnevenRaised == RaisedIn(UnionUnevenSql) /\ entry = "analyze"

\* the format names export_graph honours, once lowered
ExportFormats == {"json", "mermaid_flowchart", "mermaid_er", "graphviz_dot"}

\* the requests of the export fallback: mermaid_er against a full-mode graph,
\* or a format name outside the four
FallbackRequest(g, format) ==
    \/ LowerFormat(format) \notin ExportFormats
    \/ LowerFormat(format) = "mermaid_er" /\ g.mode = "full"

\* C13: export fallback.  Every call of export_graph leaves the nodes, edges,
\* mode and warnings of the graph as they were.  A request for mermaid_er on
\* a full-mode graph, or for a format outside json, mermaid_flowchart,
\* mermaid_er and graphviz_dot (compared case-insensitively), appends exactly
\* one error to the graph's errors and returns the Mermaid flowchart
\* rendering, whose text begins with "flowchart"; any other request appends
\* no error.
C13_ExportFallback ==
    [][(pc = "done" /\ pc' = "exported") =>
          /\ graph'.nodes = graph.nodes
          /\ graph'.edges = graph.edges
          /\ graph'.mode = graph.mode
          /\ graph'.warnings = graph.warnings
          /\ IF FallbackRequest(graph, export_format')
             THEN /\ Len(graph'.errors) = Len(graph.errors) + 1
                  /\ SubSeq(graph'.errors, 1, Len(graph.errors)) = graph.errors
                  /\ exported' = _export_mermaid_flowchart(graph)
                  /\ exported'[1] = "flowchart LR"
             ELSE graph'.errors = graph.errors]_vars

\* Mermaid_ER was asked of a full-mode graph with nodes and edges, an error
\* was appended and the flowchart came back
C13_ErOfFullGraphExported ==
    /\ pc = "exported"
    /\ export_format = "Mermaid_ER"
    /\ graph.mode = "full"
    /\ graph.nodes # <<>> /\ graph.edges # <<>>
    /\ graph.errors # <<>>
    /\ exported[1] = "flowchart LR"

\* C14: unknown graph mode.  A graph that build_graph returns for a mode name
\* that is not, whatever its case, one of full, tables_only and er_columns
\* reports mode full, holds the errors of the analysis followed by exactly one
\* "Unsupported graph mode" error, and has the nodes and edges that the full
\* builder makes of the same statements.
C14_UnknownModeBuildsFull ==
    (pc = "done" /\ LowerMode(mode) \notin GRAPH_MODES) =>
        /\ graph.mode = "full"
        /\ graph.errors = Append(result.errors, "Unsupported graph mode: " \o mode)
        /\ Count(result.errors, "Unsupported graph mode: " \o mode) = 0
        /\ graph.nodes = _build_full_graph(NewBuilder, result.statements).nodes
        /\ graph.edges = _build_full_graph(NewBuilder, result.statements).edges

\* build_graph returned for the mode name graphviz, over statements that give
\* the full graph column nodes and edges, after an analysis with an error
C14_UnknownModeBuilt ==
    /\ pc = "done"
    /\ mode = "graphviz"
    /\ result.errors # <<>>
    /\ Len(graph.errors) = Len(result.errors) + 1
    /\ \E i \in 1..Len(graph.nodes) : graph.nodes[i].type = "column"
    /\ graph.edges # <<>>

\* the ids of a list of nodes, in order
NodeIds(nodes) == [i \in 1..Len(nodes) |-> nodes[i].id]

\* no two nodes of the list have the same id
DistinctIds(nodes) ==
    \A i, j \in 1..Len(nodes) : nodes[i].id = nodes[j].id => i = j

\* C15: first-write-wins node table.  While a graph is built the node table
\* holds one node per id, and so does the nodes list of the finished graph.
\* The registrations of a statement leave every node already in the table in
\* its place and with its attributes, and append the nodes whose ids are new.
\* finalize lists the nodes of the table in its order.
C15_FirstWriteWins ==
    /\ [](DistinctIds(builder.nodes) /\ DistinctIds(graph.nodes))
    /\ [][(pc = "build" /\ pc' = "build") =>
             /\ Len(builder'.nodes) >= Len(builder.nodes)
             /\ SubSeq(builder'.nodes, 1, Len(builder.nodes)) = builder.nodes]_vars
    /\ [][(pc = "build" /\ pc' = "done") =>
             /\ NodeIds(graph'.nodes) = NodeIds(builder.nodes)
             /\ graph.mode # "er_columns" => graph'.nodes = builder.nodes]_vars

\* a finished graph of two statements: the second has sources and a target,
\* so it registered nodes, and every node of the graph still carries the
\* statement index 1 of its first registration
C15_Reregistered ==
    /\ pc = "done"
    /\ Len(result.statements) = 2
    /\ result.statements[2].sources # <<>>
    /\ result.statements[2].target.type = "table"
    /\ graph.nodes # <<>>
    /\ \A i \in 1..Len(graph.nodes) : graph.nodes[i].statement_index = 1

C17_ExpansionTerminates ==
    \A i \in 1..Len(statements) :
        (AnalyzeOver /\ Holds(i, SelfAliasSql)) =>
            /\ raised = NoneStr
            /\ Reported(i)
            /\ Len(ColumnsOf(i)) = 1
            /\ ColumnsOf(i)[1].name = "x"
            /\ InSeq(ColumnRef("a", "x"), ColumnsOf(i)[1].lineage.inputs)

\* C17: the analysis of the self-qualified subquery ended in an exception
C17_SelfAliasRaised ==
    /\ pc = "raised"
    /\ raised \in {"TypeError", "RecursionError"}
    /\ Holds(Len(analyses) + 1, SelfAliasSql)

\* C18: union inputs are deduplicated.  Once analyze is over for a text that
\* holds SELECT a AS v FROM t1 UNION ALL SELECT b AS v FROM t2, the inputs of
\* v are the left branch's {t1, a} followed by the right branch's {t2, b}; and
\* for SELECT a.x AS v, a.y AS w FROM t a UNION ALL SELECT a.x AS v FROM t a,
\* where both branches read {a, x} at the first position, the inputs of v
\* hold {a, x} once.
C18_UnionInputsDeduplicated ==
    \A i \in 1..Len(statements) :
        /\ (AnalyzeOver /\ Holds(i, UnionSql)) =>
               /\ Reported(i)
               /\ Len(ColumnsOf(i)) >= 1
               /\ ColumnsOf(i)[1].lineage.inputs
                      = <<ColumnRef("t1", "a"), ColumnRef("t2", "b")>>
        /\ (AnalyzeOver /\ Holds(i, UnionUnevenSql)) =>
               /\ Reported(i)
               /\ Len(ColumnsOf(i)) >= 1
               /\ ColumnsOf(i)[1].lineage.inputs = <<ColumnRef("a", "x")>>

\* C18: the analysis of the UNION whose branches read the same column ended in
\* TypeError, under the dialect that was asked for
C18_SharedInputUnionRaised ==
    /\ RaisedIn(UnionUnevenSql)
    /\ dialect_used = normalized_dialect

\* C19: union arity.  Once analyze is over for a text that holds
\* SELECT a.x AS v, a.y AS w FROM t a UNION ALL SELECT a.x AS v FROM t a, whose
\* left branch has two output columns and whose right branch has one, the
\* statement is reported with exactly one output column, the v of the first
\* position.
C19_UnionArity ==
    \A i \in 1..Len(statements) :
        (AnalyzeOver /\ Holds(i, UnionUnevenSql)) =>
            /\ Reported(i)
            /\ Len(ColumnsOf(i)) = 1
            /\ ColumnsOf(i)[1].name = "v"

\* C19: the analysis of the UNION with the longer left branch ended in
\* TypeError as the first statement of its text
C19_LongerLeftUnionRaised ==
    /\ RaisedIn(UnionUnevenSql)
    /\ analyses = <<>>

\* C20: inputs keep the immediate reference and every hop.  Once analyze is
\* over for a text that holds SELECT s.x FROM (SELECT x FROM t) s, the inputs
\* of x are the immediate reference {s, x} followed by the hop {t, x}; for
\* SELECT a.x AS p, t.x AS q, a.x + a.y AS r FROM t a (in a CREATE TABLE AS)
\* the inputs of r are {a, x}, {a, y} in the order of the column leaves; and
\* no output column of either statement lists a (table, column) twice.
C20_InputsKeepEveryHop ==
    \A i \in 1..Len(statements) :
        /\ (AnalyzeOver /\ Holds(i, SubquerySql)) =>
               /\ Reported(i)
               /\ Len(ColumnsOf(i)) = 1
               /\ ColumnsOf(i)[1].lineage.inputs
                      = <<ColumnRef("s", "x"), ColumnRef("t", "x")>>
        /\ (AnalyzeOver /\ Holds(i, CtasSql)) =>
               /\ Reported(i)
               /\ Len(ColumnsOf(i)) = 3
               /\ ColumnsOf(i)[3].lineage.inputs
                      = <<ColumnRef("a", "x"), ColumnRef("a", "y")>>
        /\ (AnalyzeOver /\ (Holds(i, SubquerySql) \/ Holds(i, CtasSql)) /\ Reported(i)) =>
               \A k \in 1..Len(ColumnsOf(i)) :
                   \A m, n \in 1..Len(ColumnsOf(i)[k].lineage.inputs) :
                       ColumnsOf(i)[k].lineage.inputs[m] = ColumnsOf(i)[k].lineage.inputs[n]
                           => m = n

\* C20: the analysis of the SELECT over the subquery ended in TypeError in a
\* call of build_graph
C20_SubqueryHopRaised ==
    /\ RaisedIn(SubquerySql)
    /\ entry = "build_graph"

\* ------------------------------------------------------------------
\* analyze and build_graph over texts with shadowed names, ambiguous
\* references and identifiers reused across scopes
\* ------------------------------------------------------------------

\* WITH c AS (SELECT x FROM t) SELECT r.x FROM c AS r
CteAliasSql ==
    Sel(<<[alias |-> "c",
           this |-> Sel(<<>>, <<Tbl("", "t", "")>>, <<>>,
                        <<Item("", "Column", <<Col("", "x")>>, <<>>, <<>>, "x")>>)]>>,
        <<Tbl("", "c", "r")>>, <<>>,
        <<Item("", "Column", <<Col("r", "x")>>, <<>>, <<>>, "r.x")>>)

\* WITH c AS (SELECT x FROM t) SELECT a.x FROM t1 a
\* JOIN (SELECT id FROM t2) s ON a.id = s.id LEFT JOIN c ON a.id = c.x
CteJoinSql ==
    Sel(<<[alias |-> "c",
           this |-> Sel(<<>>, <<Tbl("", "t", "")>>, <<>>,
                        <<Item("", "Column", <<Col("", "x")>>, <<>>, <<>>, "x")>>)]>>,
        <<Tbl("", "t1", "a")>>,
        <<[this |-> Sub("s", Sel(<<>>, <<Tbl("", "t2", "")>>, <<>>,
                                 <<Item("", "Column", <<Col("", "id")>>, <<>>, <<>>, "id")>>)),
           kind |-> "", on |-> "a.id = s.id"],
          [this |-> Tbl("", "c", ""), kind |-> "LEFT", on |-> "a.id = c.x"]>>,
        <<Item("", "Column", <<Col("a", "x")>>, <<>>, <<>>, "a.x")>>)

\* SELECT x FROM t1 a JOIN t2 b ON a.id = b.id UNION ALL SELECT x FROM t
AmbiguousUnionSql ==
    [node |-> "Union",
     left |-> JoinSql,
     right |-> Sel(<<>>, <<Tbl("", "t", "")>>, <<>>,
                   <<Item("", "Column", <<Col("", "x")>>, <<>>, <<>>, "x")>>)]

\* WITH c AS (SELECT x FROM t1 a JOIN t2 b ON a.id = b.id) SELECT x FROM c
AmbiguousCteSql ==
    Sel(<<[alias |-> "c", this |-> JoinSql]>>, <<Tbl("", "c", "")>>, <<>>,
        <<Item("", "Column", <<Col("", "x")>>, <<>>, <<>>, "x")>>)

\* SELECT s.x FROM (SELECT a.x FROM t1 a) s JOIN t2 a ON s.x = a.y: the
\* identifier a is table t1 inside the subquery and table t2 outside it
ScopeReuseSql ==
    Sel(<<>>,
        <<Sub("s", Sel(<<>>, <<Tbl("", "t1", "a")>>, <<>>,
                       <<Item("", "Column", <<Col("a", "x")>>, <<>>, <<>>, "a.x")>>))>>,
        <<[this |-> Tbl("", "t2", "a"), kind |-> "", on |-> "s.x = a.y"]>>,
        <<Item("", "Column", <<Col("s", "x")>>, <<>>, <<>>, "s.x")>>)

ScopeStatements ==
    {CteChainSql, CteAliasSql, CteJoinSql, JoinSql, AmbiguousUnionSql, AmbiguousCteSql,
     ScopeReuseSql, DropSql, CreateLikeSql}

ScopeLists ==
    UNION {[1..n -> ScopeStatements] : n \in 1..MaxStatements}

\* the state before a call of analyze or build_graph on one of these texts
ScopeInit ==
    /\ sql \in [trees : ScopeLists, parses : ParseSets]
    /\ dialect \in DialectArgs
    /\ entry \in {"analyze", "build_graph"}
    /\ mode \in IF entry = "build_graph" THEN ModeArgs ELSE {"full"}
    /\ pc = "start"
    /\ normalized_dialect = NoneStr
    /\ errors = <<>>
    /\ statements = <<>>
    /\ dialect_used = NoneStr
    /\ analyses = <<>>
    /\ parse_calls = <<>>
    /\ result = NoResult
    /\ builder = NewBuilder
    /\ built = 0
    /\ graph = NoGraph
    /\ raised = NoneStr
    /\ export_format = NoneStr
    /\ exported = <<>>
    /\ previous = NoCall

ScopeSpec == ScopeInit /\ [][Next]_vars

\* ------------------------------------------------------------------
\* Claims on classification, contexts and the edges of the graph
\* ------------------------------------------------------------------

\* the select-list items the output columns of a query come from: those of
\* the left branch for a UNION
ItemsOf(tree) == IF tree.node = "Union" THEN tree.left.expressions ELSE tree.expressions

\* the lineage type and the mapping reason of an output column
KindOf(column) == <<column.lineage.type, column.lineage.mapping[1].reason>>

\* C21: classification priority.  Once analyze is over for a text that holds
\* a UNION of two aliased columns, an alias over one column, a COALESCE call
\* under an alias, or an unaliased bare column, the statement is reported with
\* one output column per select-list item, and each is classified union/union
\* if it is union-merged; else column_rename/alias if its item is an alias
\* directly over a column; else expression, with reason coalesce exactly when
\* its functions hold coalesce and not ifnull, and reason expression otherwise.
C21_ClassificationPriority ==
    \A i \in 1..Len(statements) :
        \A tree \in {UnionSql, AliasRenameSql, CoalesceSql, JoinSql} :
            (AnalyzeOver /\ Holds(i, tree)) =>
                /\ Reported(i)
                /\ Len(ColumnsOf(i)) = Len(ItemsOf(tree))
                /\ \A k \in 1..Len(ColumnsOf(i)) :
                       IF tree.node = "Union"
                       THEN KindOf(ColumnsOf(i)[k]) = <<"union", "union">>
                       ELSE IF ItemsOf(tree)[k].alias # "" /\ ItemsOf(tree)[k].inner = "Column"
                       THEN KindOf(ColumnsOf(i)[k]) = <<"column_rename", "alias">>
                       ELSE /\ ColumnsOf(i)[k].lineage.type = "expression"
                            /\ KindOf(ColumnsOf(i)[k])[2] \in {"coalesce", "expression"}
                            /\ KindOf(ColumnsOf(i)[k])[2] = "coalesce"
                                   <=> /\ InSeq("coalesce", ColumnsOf(i)[k].lineage.functions)
                                       /\ ~InSeq("ifnull", ColumnsOf(i)[k].lineage.functions)

\* C21: the analysis of the COALESCE call ended in TypeError under a dialect
\* that adds no ifnull
C21_CoalesceRaised == RaisedIn(CoalesceSql) /\ dialect_used = "clickhouse"

\* the FROM/JOIN table references of a Select that name a CTE of its WITH clause
CteReferences(select) ==
    SelectSeq(DirectItems(select),
              LAMBDA item : /\ item.node = "Table"
                            /\ item.db = ""
                            /\ \E w \in 1..Len(select.with) : select.with[w].alias = item.name)

\* a list of SourceInfo holds a source of that type and name
HoldsSource(sources, source_type, name) ==
    \E k \in 1..Len(sources) : sources[k].source_type = source_type /\ sources[k].name = name

\* C22: CTE shadowing.  Once analyze is over for a text that holds
\* WITH b AS (..), c AS (..) SELECT x FROM c, or
\* WITH c AS (SELECT x FROM t) SELECT r.x FROM c AS r, build_context gives a
\* context for that SELECT, and for each FROM/JOIN reference that names a CTE
\* of its WITH clause the sources and the report_sources of the context hold
\* the cte source and no table source of that name, and active_identifiers
\* holds the identifier of the reference.
C22_CteShadowing ==
    \A i \in 1..Len(statements) :
        \A tree \in {CteChainSql, CteAliasSql} :
            (AnalyzeOver /\ Holds(i, tree)) =>
                LET Shadowed(context) ==
                        /\ ~IsRaise(context)
                        /\ \A r \in 1..Len(CteReferences(tree)) :
                               LET reference == CteReferences(tree)[r]
                               IN /\ HoldsSource(context.sources, "cte", reference.name)
                                  /\ HoldsSource(context.report_sources, "cte", reference.name)
                                  /\ ~HoldsSource(context.sources, "table", reference.name)
                                  /\ ~HoldsSource(context.report_sources, "table", reference.name)
                                  /\ InSeq(alias_or_name(reference), context.active_identifiers)
                IN Shadowed(build_context(tree, dialect_used))

\* C22: the analysis of the SELECT that reads its CTE under an alias ended in
\* TypeError
C22_AliasedCteRaised == RaisedIn(CteAliasSql)

\* the column nodes of a list of nodes
ColumnNodes(nodes) == {k \in 1..Len(nodes) : nodes[k].type = "column"}

\* the column node is the target of a contains edge that leaves its table_id
Contained(edges, node) ==
    \E e \in 1..Len(edges) :
        /\ edges[e].type = "contains"
        /\ edges[e].from = node.table_id
        /\ edges[e].to = node.id

Unmatched(input_ref, sources) ==
    \/ input_ref.table = NoneStr
    \/ \A s \in 1..Len(sources) :
           sources[s].alias # input_ref.table /\ sources[s].name # input_ref.table

\* the id of the best-effort relation node of an unmatched input
RawNodeId(input_ref) ==
    IF input_ref.table = NoneStr THEN "table:unknown" ELSE "table:" \o input_ref.table

JoinEdges(edges, statement_index) ==
    SelectSeq(edges, LAMBDA edge : edge.type = "joins_with"
                                   /\ edge.statement_index = statement_index)

\* every statement of the catalogue that joins reads FROM t1 a first
FirstImmediateTable == "table:t1"

\* the node of the relation a join entry names on its right: a table or a CTE
\* of the statement's sources
JoinedNode(statement, right) ==
    IF \E s \in 1..Len(statement.sources) :
           statement.sources[s].type = "cte" /\ statement.sources[s].name = right.name
    THEN "cte:" \o right.name
    ELSE "table:" \o right.name

SourceEnd(statement, input_ref) ==
    LET subquery_map == _build_subquery_map(statement.index, statement.sources)
    IN _table_node_id_from_source_name(
           _resolve_with_subqueries(input_ref.table, statement.sources, statement.index,
                                    subquery_map).resolved.full_name,
           statement.sources, statement.index, subquery_map)

\* the output columns of a statement with an input counted under that source end
Contributing(statement, from_node) ==
    {c \in 1..Len(statement.output.columns) :
        \E k \in 1..Len(statement.output.columns[c].lineage.inputs) :
            SourceEnd(statement, statement.output.columns[c].lineage.inputs[k]) = from_node}

OwnedBy(nodes, node_id) ==
    {k \in 1..Len(nodes) : nodes[k].type = "column" /\ nodes[k].table_id = node_id}

\* the position of the first column node of that name the relation node owns
FirstOwned(nodes, node_id, name) ==
    CHOOSE k \in OwnedBy(nodes, node_id) :
        /\ nodes[k].name = name
        /\ \A j \in OwnedBy(nodes, node_id) : nodes[j].name = name => k <= j

\* C27: er_columns finalization.  In a finished er_columns graph every table,
\* cte and subquery node has a columns list; the list holds the name of every
\* column node whose table_id is the node's id, whichever statement added it,
\* and nothing else; it holds each name once, in the order in which the names
\* are first seen among the nodes; a node that owns no column has the empty
\* list.
C27_ErColumnsFinalized ==
    (pc = "done" /\ graph.mode = "er_columns") =>
        \A n \in 1..Len(graph.nodes) :
            graph.nodes[n].type \in RelationTypes =>
                LET node == graph.nodes[n]
                    owned == OwnedBy(graph.nodes, node.id)
                IN /\ "columns" \in DOMAIN node
                   /\ {node.columns[c] : c \in 1..Len(node.columns)}
                          = {graph.nodes[k].name : k \in owned}
                   /\ \A c, d \in 1..Len(node.columns) :
                          /\ node.columns[c] = node.columns[d] => c = d
                          /\ c < d => FirstOwned(graph.nodes, node.id, node.columns[c])
                                          < FirstOwned(graph.nodes, node.id, node.columns[d])

\* C27: a finished er_columns graph in which a relation node registered by
\* the first statement lists a column whose node the second statement added,
\* beside a relation node with an empty list and one with two columns
C27_LaterColumnListed ==
    /\ pc = "done"
    /\ graph.mode = "er_columns"
    /\ \E n \in 1..Len(graph.nodes) :
           /\ graph.nodes[n].type \in RelationTypes
           /\ graph.nodes[n].statement_index = 1
           /\ \E k \in OwnedBy(graph.nodes, graph.nodes[n].id) :
                  /\ graph.nodes[k].statement_index = 2
                  /\ InSeq(graph.nodes[k].name, graph.nodes[n].columns)
    /\ \E n \in 1..Len(graph.nodes) :
           graph.nodes[n].type \in RelationTypes /\ graph.nodes[n].columns = <<>>
    /\ \E n \in 1..Len(graph.nodes) :
           graph.nodes[n].type \in RelationTypes /\ Len(graph.nodes[n].columns) >= 2

\* an output column shows its ambiguity: its inputs hold the null-table
\* reference of a column exactly when its notes name that column as ambiguous
AmbiguityShown(column) ==
    /\ \A k \in 1..Len(column.lineage.inputs) :
           column.lineage.inputs[k].table = NoneStr
               => InSeq([ambiguous_column |-> column.lineage.inputs[k].column],
                        column.lineage.notes)
    /\ \A n \in 1..Len(column.lineage.notes) :
           InSeq(ColumnRef(NoneStr, column.lineage.notes[n].ambiguous_column),
                 column.lineage.inputs)

\* C28: ambiguity is always visible.  Once analyze is over for a text that
\* holds SELECT x FROM t1 a JOIN t2 b ON a.id = b.id, that SELECT as the left
\* branch of a UNION ALL, or that SELECT as the body of a CTE c read by
\* SELECT x FROM c, the statement is reported with output columns, and the
\* inputs of each hold a null-table reference for a column exactly when its
\* notes hold {ambiguous_column: that column}.
C28_AmbiguityVisible ==
    \A i \in 1..Len(statements) :
        \A tree \in {JoinSql, AmbiguousUnionSql, AmbiguousCteSql} :
            (AnalyzeOver /\ Holds(i, tree)) =>
                /\ Reported(i)
                /\ ColumnsOf(i) # <<>>
                /\ \A k \in 1..Len(ColumnsOf(i)) : AmbiguityShown(ColumnsOf(i)[k])

\* C28: the analysis of the UNION with the ambiguous left branch ended in
\* TypeError
C28_AmbiguousUnionRaised == RaisedIn(AmbiguousUnionSql)

\* the ids of the nodes of a graph
IdsOf(nodes) == {nodes[n].id : n \in 1..Len(nodes)}

DependsOn(column, table, name) ==
    \E d \in 1..Len(column.dependencies) :
        /\ column.dependencies[d].table = table
        /\ InSeq(name, column.dependencies[d].columns)

\* C30: scope-correct attribution of expansion hops.  Once analyze is over for
\* a text that holds SELECT s.x FROM (SELECT a.x FROM t1 a) s JOIN t2 a ON
\* s.x = a.y, where a is t1 inside the subquery and t2 in the enclosing
\* SELECT, the statement is reported with the output column x, and the
\* Dependencies of x attribute the hop {a, x} to t1 and not to t2.
C30_ScopeCorrectHops ==
    \A i \in 1..Len(statements) :
        (AnalyzeOver /\ Holds(i, ScopeReuseSql)) =>
            /\ Reported(i)
            /\ Len(ColumnsOf(i)) = 1
            /\ ColumnsOf(i)[1].name = "x"
            /\ DependsOn(ColumnsOf(i)[1], "t1", "x")
            /\ ~DependsOn(ColumnsOf(i)[1], "t2", "x")

\* C30: the analysis of the SELECT that reuses the identifier a across scopes
\* ended in TypeError
C30_ScopeReuseRaised == RaisedIn(ScopeReuseSql)

====
